---- MODULE Spec2Model ----
(***************************************************************************)
(* KinetiCandles: the data model (load, day index, window selection,       *)
(* interval bucketing, candle aggregation, weekly analysis) and the two    *)
(* application controllers (KinetiCandles_v3.py and candle.py) as state    *)
(* machines.                                                               *)
(*                                                                         *)
(* A timestamp is a whole number of seconds since 1970-01-01 00:00:00, a   *)
(* calendar date the number of days since 1970-01-01.  A DataFrame is a    *)
(* record [columns, rows]: rows keep their original (file) order.  A       *)
(* missing object (Python's None) is the record None.                      *)
(***************************************************************************)
EXTENDS Integers, Sequences, FiniteSets, TLC

VARIABLES
    \* DataModel (KinetiCandles_v3.py) / KinetiCandlesApp (candle.py) data
    data,                     \* the loaded DataFrame, or None
    days,                     \* v3: sorted list of distinct dates
    current_day_index,        \* v3: cursor into days
    has_second_resolution,    \* v3: resolution flag
    current_day,              \* candle.py: cursor into the distinct dates
    \* KinetiCandlesApp
    user_data,                \* v3: the user's loaded DataFrame, or None
    using_sample_data,        \* v3
    current_view,             \* "day", "week" or "high_res"
    selected_start_hour,
    selected_end_hour,
    candle_interval_seconds,  \* v3
    simulation_active,
    start_hour_var,           \* text of the "From:" combobox
    end_hour_var,             \* text of the "To:" combobox
    interval_var,             \* v3: text of the "Candle Size:" combobox
    simulation_day_index,     \* v3
    event,                    \* the most recent UI event: its handler and
                              \* the dialogs the handler showed
    \* inputs and results of the data-model functions applied on their own
    window_data,              \* result of get_high_resolution_data, or None
    interval_seconds,         \* argument of get_candle_data
    candle_data,              \* result of get_candle_data
    analysis,                 \* result of analyze_week_patterns
    pc,                       \* which function was applied last
    \* the simulation of candle.py
    thread,                   \* run_simulation: its position, its local days
                              \* and start_day
    after                     \* view refreshes scheduled by root.after(0, ...)
                              \* and not yet run

vars == <<data, days, current_day_index, has_second_resolution, current_day,
          user_data, using_sample_data, current_view, selected_start_hour,
          selected_end_hour, candle_interval_seconds, simulation_active,
          start_hour_var, end_hour_var, interval_var, simulation_day_index, event,
          window_data, interval_seconds, candle_data, analysis, pc, thread, after>>

modelVars == <<data, days, current_day_index, has_second_resolution>>
threadVars == <<thread, after>>
coreVars == <<window_data, interval_seconds, candle_data, analysis, pc, threadVars>>

None == [none |-> TRUE]

(***************************************************************************)
(* Bounds of the model.                                                    *)
(***************************************************************************)
MaxRows == 3          \* rows of a file loaded by the applications
MaxSeriesRows == 3    \* rows of a series given to the aggregation functions
SampleSeconds == 2    \* rows kept of each day of the generated sample data

(***************************************************************************)
(* Program constants.                                                      *)
(***************************************************************************)
DAYS_OF_WEEK ==
    <<"Monday", "Tuesday", "Wednesday", "Thursday", "Friday", "Saturday", "Sunday">>

HIGHRES_INTERVALS ==
    << [name |-> "15 seconds", seconds |-> 15],
       [name |-> "30 seconds", seconds |-> 30],
       [name |-> "1 minute",   seconds |-> 60],
       [name |-> "5 minutes",  seconds |-> 300] >>

(***************************************************************************)
(* Sequences and sets.                                                     *)
(***************************************************************************)
Range(s) == {s[i] : i \in DOMAIN s}

SeqsUpTo(S, n) == UNION {[1..k -> S] : k \in 0..n}

Min(S) == CHOOSE x \in S : \A y \in S : x <= y
Max(S) == CHOOSE x \in S : \A y \in S : x >= y

\* Python's sorted() on a collection of distinct integers
RECURSIVE sorted(_)
sorted(S) == IF S = {} THEN <<>> ELSE <<Min(S)>> \o sorted(S \ {Min(S)})

\* list.index(x): position (0-based) of the first element equal to x
index(s, x) == Min({i \in DOMAIN s : s[i] = x}) - 1

(***************************************************************************)
(* Timestamps: pandas' .dt accessors on a second-resolution timestamp.     *)
(***************************************************************************)
dt_date(ts) == ts \div (24 * 3600)
dt_hour(ts) == (ts % (24 * 3600)) \div 3600
dt_minute(ts) == (ts % 3600) \div 60
dt_second(ts) == ts % 60
\* 1970-01-01 was a Thursday
dt_day_name(ts) == DAYS_OF_WEEK[((dt_date(ts) + 3) % 7) + 1]

\* a CSV timestamp cell "YYYY-MM-DD HH:MM:SS", the date given as a day number
Cell(d, h, m, s) == [date |-> d, hour |-> h, minute |-> m, second |-> s]
\* a cell no timestamp can be parsed from
Garbage == [garbage |-> "not a time"]

\* pd.to_datetime on one parseable cell
to_datetime(cell) ==
    cell.date * (24 * 3600) + cell.hour * 3600 + cell.minute * 60 + cell.second

(***************************************************************************)
(* Files offered to load_data.  read_csv gives the DataFrame of the file:  *)
(* its header's columns and its rows in file order, each row a record of   *)
(* the file's columns.                                                     *)
(***************************************************************************)
\* 2023-05-01, a Monday: the first day of the sample data, as a day number
SampleStartDate == 19478

RawRow(cell, v) == [timestamp |-> cell, activity_level |-> v]

File(rows) == [columns |-> {"timestamp", "activity_level"}, rows |-> rows]

read_csv(file) == file

\* the rows the applications' files are made of: a sample of a Monday and
\* one of the Tuesday after it
AppRows ==
    { RawRow(Cell(SampleStartDate, 8, 0, 0), 10),
      RawRow(Cell(SampleStartDate + 1, 8, 0, 30), 20) }

\* three dates in no order: the Monday a week later, the Tuesday, the Monday
WeekFile ==
    File(<<RawRow(Cell(SampleStartDate + 7, 8, 0, 0), 10),
           RawRow(Cell(SampleStartDate + 1, 9, 0, 0), 20),
           RawRow(Cell(SampleStartDate, 8, 0, 0), 30)>>)

GoodFiles == {File(rows) : rows \in SeqsUpTo(AppRows, MaxRows)} \cup {WeekFile}

\* a file without the timestamp column, one without the activity_level
\* column, and one whose second timestamp cannot be parsed
NoTimestampFile ==
    [columns |-> {"activity_level"}, rows |-> <<[activity_level |-> 10]>>]
NoActivityFile ==
    [columns |-> {"timestamp"},
     rows |-> <<[timestamp |-> Cell(SampleStartDate + 2, 8, 0, 0)]>>]
GarbageFile ==
    File(<<RawRow(Cell(SampleStartDate + 2, 8, 0, 0), 10), RawRow(Garbage, 10)>>)

BadFiles == {NoTimestampFile, NoActivityFile, GarbageFile}

Files == GoodFiles \cup BadFiles

(***************************************************************************)
(* DataModel (KinetiCandles_v3.py).                                        *)
(***************************************************************************)
required_columns == {"timestamp", "activity_level"}

MissingColumnsText == "The file must contain these columns: timestamp, activity_level"
UnparseableText == "Unknown datetime string format, unable to parse"

\* the exception load_data raises on the file, "" when it raises none
LoadException(file) ==
    IF ~(required_columns \subseteq read_csv(file).columns) THEN MissingColumnsText
    ELSE IF \E i \in DOMAIN file.rows : file.rows[i].timestamp = Garbage
         THEN UnparseableText
    ELSE ""

\* strftime('%Y-%m-%d %H:%M'): one key per calendar minute
minute_key(ts) == ts \div 60

\* the frame after the timestamp conversion, the day_of_week column and the
\* minute_key column detect_data_resolution leaves on it
ParsedRow(raw) ==
    LET ts == to_datetime(raw.timestamp)
    IN  [timestamp |-> ts, activity_level |-> raw.activity_level,
         day_of_week |-> dt_day_name(ts), minute_key |-> minute_key(ts)]

\* min(1000, len(data)): the most rows detect_data_resolution examines
MaxSampleSize == 1000

\* a longer frame is sampled into a copy, and is left without minute_key
ParsedFrame(file) ==
    IF Len(file.rows) > MaxSampleSize
    THEN [columns |-> file.columns \cup {"day_of_week"},
          rows |-> [i \in DOMAIN file.rows |->
                      [timestamp |-> ParsedRow(file.rows[i]).timestamp,
                       activity_level |-> ParsedRow(file.rows[i]).activity_level,
                       day_of_week |-> ParsedRow(file.rows[i]).day_of_week]]]
    ELSE [columns |-> file.columns \cup {"day_of_week", "minute_key"},
          rows |-> [i \in DOMAIN file.rows |-> ParsedRow(file.rows[i])]]

\* records_per_minute > 1 for some minute, on a frame examined whole (one
\* of at most MaxSampleSize rows)
detect_data_resolution(frame) ==
    \E i, j \in DOMAIN frame.rows :
        i # j /\ minute_key(frame.rows[i].timestamp) = minute_key(frame.rows[j].timestamp)

\* unique_days in descending order
unique_days_descending(frame) ==
    LET dates == sorted({dt_date(frame.rows[i].timestamp) : i \in DOMAIN frame.rows})
    IN  [i \in DOMAIN dates |-> dates[Len(dates) + 1 - i]]

\* sorted(data['timestamp'].dt.date.unique())
unique_days(frame) == sorted({dt_date(frame.rows[i].timestamp) : i \in DOMAIN frame.rows})

\* the DataModel after a load_data that raises nothing, on a file examined
\* whole
load_data(file) ==
    LET frame == ParsedFrame(file)
    IN  [data |-> frame,
         days |-> unique_days(frame),
         current_day_index |-> 0,
         has_second_resolution |-> detect_data_resolution(frame)]

\* the subsets of S with k elements
RECURSIVE KSubsets(_, _)
KSubsets(S, k) ==
    IF k = 0 THEN {{}}
    ELSE {T \in {D \cup {x} : D \in KSubsets(S, k - 1), x \in S} : Cardinality(T) = k}

\* data.sample(sample_size) if len(data) > sample_size else data: the sets
\* of rows (as positions in the frame) one of which is examined; a frame of
\* more than MaxSampleSize rows gives any MaxSampleSize of its rows
data_samples(frame) ==
    IF Len(frame.rows) > MaxSampleSize
    THEN {DOMAIN frame.rows \ D :
            D \in KSubsets(DOMAIN frame.rows, Len(frame.rows) - MaxSampleSize)}
    ELSE {DOMAIN frame.rows}

\* (records_per_minute > 1).any() on the rows of one sample
sample_resolution(frame, sample) ==
    \E i, j \in sample :
        i # j /\ minute_key(frame.rows[i].timestamp) = minute_key(frame.rows[j].timestamp)

\* the values detect_data_resolution can leave in has_second_resolution
detect_data_resolution_outcomes(frame) ==
    {sample_resolution(frame, sample) : sample \in data_samples(frame)}

\* the DataModel states a load_data that raises nothing can leave
load_data_outcomes(file) ==
    {[load_data(file) EXCEPT !.has_second_resolution = flag] :
        flag \in detect_data_resolution_outcomes(ParsedFrame(file))}

get_current_date(dys, idx) ==
    IF dys = <<>> \/ idx >= Len(dys) THEN None ELSE [date |-> dys[idx + 1]]

get_data_for_current_day(d, dys, idx) ==
    LET current_date == get_current_date(dys, idx)
    IN  IF current_date = None \/ d = None THEN None
        ELSE [columns |-> d.columns,
              rows |-> SelectSeq(d.rows, LAMBDA r : dt_date(r.timestamp) = current_date.date)]

\* next_day without the wrap at the last date
next_day_no_wrap(dys, idx) == IF dys = <<>> THEN idx ELSE idx + 1

next_day(dys, idx) == IF dys = <<>> THEN idx ELSE (idx + 1) % Len(dys)

\* previous_day stopping at the first date
previous_day_no_wrap(dys, idx) ==
    IF dys = <<>> \/ idx = 0 THEN idx ELSE idx - 1

previous_day(dys, idx) == IF dys = <<>> THEN idx ELSE (idx - 1) % Len(dys)

\* an index into days, or None
find_day_index_by_name(d, dys, day_name) ==
    IF d = None \/ day_name \notin Range(DAYS_OF_WEEK) THEN None
    ELSE LET day_data == SelectSeq(d.rows, LAMBDA r : r.day_of_week = day_name)
         IN  IF Len(day_data) = 0 THEN None
             ELSE LET selected_date == dt_date(day_data[1].timestamp)
                  IN  IF selected_date \in Range(dys)
                      THEN [index |-> index(dys, selected_date)]
                      ELSE None

(***************************************************************************)
(* Window selection and interval candles (DataModel).                      *)
(***************************************************************************)
\* hour * 60 + minute + second / 60, as the fraction num / den
time_index(ts) ==
    [num |-> dt_hour(ts) * 3600 + dt_minute(ts) * 60 + dt_second(ts), den |-> 60]

\* get_high_resolution_data keeping the samples of the hour end_hour
get_high_resolution_data_with_end_hour(d, dys, idx, start_hour, end_hour) ==
    LET day_data == get_data_for_current_day(d, dys, idx)
    IN  IF day_data = None THEN None
        ELSE IF Len(day_data.rows) = 0 THEN None
        ELSE LET kept == SelectSeq(day_data.rows,
                             LAMBDA r : dt_hour(r.timestamp) >= start_hour
                                        /\ dt_hour(r.timestamp) <= end_hour)
             IN  IF Len(kept) = 0 THEN None
                 ELSE [columns |-> day_data.columns \cup {"time_index"},
                       rows |-> [i \in DOMAIN kept |->
                                    [c \in DOMAIN kept[i] \cup {"time_index"} |->
                                        IF c = "time_index"
                                        THEN time_index(kept[i].timestamp)
                                        ELSE kept[i][c]]]]

\* the rows of the current day with start_hour <= hour < end_hour, each with
\* its time_index, or None
get_high_resolution_data(d, dys, idx, start_hour, end_hour) ==
    LET day_data == get_data_for_current_day(d, dys, idx)
    IN  IF day_data = None THEN None
        ELSE IF Len(day_data.rows) = 0 THEN None
        ELSE LET kept == SelectSeq(day_data.rows,
                             LAMBDA r : dt_hour(r.timestamp) >= start_hour
                                        /\ dt_hour(r.timestamp) < end_hour)
             IN  IF Len(kept) = 0 THEN None
                 ELSE [columns |-> day_data.columns \cup {"time_index"},
                       rows |-> [i \in DOMAIN kept |->
                                    [c \in DOMAIN kept[i] \cup {"time_index"} |->
                                        IF c = "time_index"
                                        THEN time_index(kept[i].timestamp)
                                        ELSE kept[i][c]]]]

\* epoch a minute ahead of the timestamp
epoch_a_minute_ahead(ts) == ts + 60

\* timestamp.astype('int64') // 10**9 on a whole-second timestamp
epoch(ts) == ts

\* interval_of rounding up to the next multiple of the width
interval_of_rounded_up(ts, width) == ((epoch(ts) + width - 1) \div width) * width

\* (epoch // interval_seconds) * interval_seconds
interval_of(ts, width) == (epoch(ts) \div width) * width

\* with_interval losing the first row of the frame
with_interval_without_first_row(wd, width) ==
    IF wd = None THEN wd
    ELSE IF Len(wd.rows) = 0 THEN wd
    ELSE [columns |-> wd.columns \cup {"epoch", "interval"},
          rows |-> [i \in 1..(Len(wd.rows) - 1) |->
                       [c \in DOMAIN wd.rows[i + 1] \cup {"epoch", "interval"} |->
                           IF c = "epoch" THEN epoch(wd.rows[i + 1].timestamp)
                           ELSE IF c = "interval"
                           THEN interval_of(wd.rows[i + 1].timestamp, width)
                           ELSE wd.rows[i + 1][c]]]]

\* the frame get_candle_data leaves: every row with its epoch and interval
with_interval(wd, width) ==
    IF wd = None THEN wd
    ELSE IF Len(wd.rows) = 0 THEN wd
    ELSE [columns |-> wd.columns \cup {"epoch", "interval"},
          rows |-> [i \in DOMAIN wd.rows |->
                       [c \in DOMAIN wd.rows[i] \cup {"epoch", "interval"} |->
                           IF c = "epoch" THEN epoch(wd.rows[i].timestamp)
                           ELSE IF c = "interval"
                           THEN interval_of(wd.rows[i].timestamp, width)
                           ELSE wd.rows[i][c]]]]

\* interval_groups with the groups in descending key order
interval_groups_descending(rows, width) ==
    LET keys == sorted({interval_of(rows[i].timestamp, width) : i \in DOMAIN rows})
    IN  [k \in DOMAIN keys |->
            [interval |-> keys[Len(keys) + 1 - k],
             group |-> SelectSeq(rows,
                          LAMBDA r : interval_of(r.timestamp, width)
                                        = keys[Len(keys) + 1 - k])]]

\* groupby('interval'): the groups in ascending key order, the rows of each
\* group in their order in the frame
interval_groups(rows, width) ==
    LET keys == sorted({interval_of(rows[i].timestamp, width) : i \in DOMAIN rows})
    IN  [k \in DOMAIN keys |->
            [interval |-> keys[k],
             group |-> SelectSeq(rows,
                          LAMBDA r : interval_of(r.timestamp, width) = keys[k])]]

\* forms_candle letting a single sample form a candle
forms_candle_single_sample(group) == Len(group) > 0

\* len(group) > 1: need at least 2 points to form a candle
forms_candle(group) == Len(group) > 1

\* candle_of taking the first sample for the maximum
candle_of_max_is_first(interval, group, width) ==
    [time_index |-> time_index(interval),
     first |-> group[1].activity_level,
     last |-> group[Len(group)].activity_level,
     max |-> group[1].activity_level,
     min |-> Min({group[i].activity_level : i \in DOMAIN group}),
     timestamp |-> interval,
     interval_seconds |-> width]

\* the candle record of one group
candle_of(interval, group, width) ==
    [time_index |-> time_index(interval),
     first |-> group[1].activity_level,
     last |-> group[Len(group)].activity_level,
     max |-> Max({group[i].activity_level : i \in DOMAIN group}),
     min |-> Min({group[i].activity_level : i \in DOMAIN group}),
     timestamp |-> interval,
     interval_seconds |-> width]

\* the rows of the returned candle frame
get_candle_data(wd, width) ==
    IF wd = None THEN <<>>
    ELSE IF Len(wd.rows) = 0 THEN <<>>
    ELSE LET groups == SelectSeq(interval_groups(wd.rows, width),
                                 LAMBDA g : forms_candle(g.group))
         IN  [k \in DOMAIN groups |->
                 candle_of(groups[k].interval, groups[k].group, width)]

(***************************************************************************)
(* Weekly aggregation and analysis (DataModel).  A float is the exact      *)
(* fraction num / den in lowest terms; NaN is the record NaN.              *)
(***************************************************************************)
NaN == [nan |-> TRUE]

Abs(x) == IF x < 0 THEN 0 - x ELSE x

RECURSIVE gcd(_, _)
gcd(a, b) == IF b = 0 THEN a ELSE gcd(b, a % b)

lcm(a, b) == (a \div gcd(a, b)) * b

Rat(n, d) == [num |-> n \div gcd(Abs(n), d), den |-> d \div gcd(Abs(n), d)]

RatAdd(a, b) ==
    Rat(a.num * (lcm(a.den, b.den) \div a.den) + b.num * (lcm(a.den, b.den) \div b.den),
        lcm(a.den, b.den))

RatSub(a, b) == RatAdd(a, Rat(0 - b.num, b.den))

RatMul(a, b) == Rat(a.num * b.num, a.den * b.den)

RatDivInt(a, k) == Rat(a.num, a.den * k)

RatLess(a, b) == a.num * b.den < b.num * a.den

RECURSIVE RatSum(_)
RatSum(s) == IF s = <<>> THEN Rat(0, 1) ELSE RatAdd(Head(s), RatSum(Tail(s)))

\* Series.mean() of a non-empty sequence of floats
mean(s) == RatDivInt(RatSum(s), Len(s))

\* the square of Series.std() (ddof = 1) of a sequence of floats, NaN for
\* fewer than two values
variance(s) ==
    IF Len(s) < 2 THEN NaN
    ELSE RatDivInt(RatSum([i \in DOMAIN s |->
                              RatMul(RatSub(s[i], mean(s)), RatSub(s[i], mean(s)))]),
                   Len(s) - 1)

\* get_weekly_data with the row of a label without samples filled with 0
get_weekly_data_zero_filled(d) ==
    IF d = None THEN None
    ELSE [i \in DOMAIN DAYS_OF_WEEK |->
            LET group == SelectSeq(d.rows, LAMBDA r : r.day_of_week = DAYS_OF_WEEK[i])
                levels == [k \in DOMAIN group |-> Rat(group[k].activity_level, 1)]
                values == {group[k].activity_level : k \in DOMAIN group}
            IN  IF Len(group) = 0
                THEN [day_of_week |-> DAYS_OF_WEEK[i], mean |-> Rat(0, 1), std2 |-> NaN,
                      max |-> Rat(0, 1), min |-> Rat(0, 1), count |-> Rat(0, 1)]
                ELSE [day_of_week |-> DAYS_OF_WEEK[i],
                      mean |-> mean(levels),
                      std2 |-> variance(levels),
                      max |-> Rat(Max(values), 1),
                      min |-> Rat(Min(values), 1),
                      count |-> Rat(Len(group), 1)]]

\* groupby('day_of_week')['activity_level'].agg(...).reindex(DAYS_OF_WEEK):
\* one row per weekday label, Monday to Sunday, NaN where the label has no
\* sample; std is kept as its square
get_weekly_data(d) ==
    IF d = None THEN None
    ELSE [i \in DOMAIN DAYS_OF_WEEK |->
            LET group == SelectSeq(d.rows, LAMBDA r : r.day_of_week = DAYS_OF_WEEK[i])
                levels == [k \in DOMAIN group |-> Rat(group[k].activity_level, 1)]
                values == {group[k].activity_level : k \in DOMAIN group}
            IN  IF Len(group) = 0
                THEN [day_of_week |-> DAYS_OF_WEEK[i], mean |-> NaN, std2 |-> NaN,
                      max |-> NaN, min |-> NaN, count |-> NaN]
                ELSE [day_of_week |-> DAYS_OF_WEEK[i],
                      mean |-> mean(levels),
                      std2 |-> variance(levels),
                      max |-> Rat(Max(values), 1),
                      min |-> Rat(Min(values), 1),
                      count |-> Rat(Len(group), 1)]]

\* ChartView.plot_week_view(weekly_data): the candle drawn for each label of
\* DAYS_OF_WEEK found in the index; none without weekly data
plot_week_view(weekly_data) ==
    IF weekly_data = None THEN <<>>
    ELSE [i \in DOMAIN weekly_data |->
            [day |-> weekly_data[i].day_of_week,
             open_val |-> weekly_data[i].mean,
             close_val |-> weekly_data[i].mean,
             high_val |-> weekly_data[i].max,
             low_val |-> weekly_data[i].min]]

\* the empty dict analyze_week_patterns returns without data
EmptyDict == [dict |-> "empty"]

\* weekly_data['mean'].fillna(0), Monday to Sunday
fillna(means) == [i \in DOMAIN means |-> IF means[i] = NaN THEN Rat(0, 1) ELSE means[i]]

\* idxmax / idxmin: the first label holding the greatest / least value
idxmax(daily_avg) ==
    DAYS_OF_WEEK[Min({i \in DOMAIN daily_avg :
                        \A j \in DOMAIN daily_avg : ~RatLess(daily_avg[i], daily_avg[j])})]

idxmin(daily_avg) ==
    DAYS_OF_WEEK[Min({i \in DOMAIN daily_avg :
                        \A j \in DOMAIN daily_avg : ~RatLess(daily_avg[j], daily_avg[i])})]

\* daily_avg[days].mean() if days else 0, days the labels (as positions in
\* DAYS_OF_WEEK) found in daily_avg.index: the index holds all seven labels
label_mean(daily_avg, weekly_data, labels) ==
    LET present == SelectSeq(labels, LAMBDA i : i \in DOMAIN daily_avg)
    IN  IF present = <<>> THEN Rat(0, 1)
        ELSE mean([k \in DOMAIN present |-> daily_avg[present[k]]])

\* week_pattern_type comparing the two averages without the factor 1.3
week_pattern_type_without_factor(weekday_avg, weekend_avg, daily_avg) ==
    IF RatLess(weekday_avg, weekend_avg) THEN "weekend_warrior"
    ELSE IF RatLess(weekend_avg, weekday_avg) THEN "workweek_active"
    ELSE IF RatLess(variance(daily_avg), Rat(100, 1)) THEN "consistent_weekly"
    ELSE "variable_weekly"

\* the pattern type of a week with these averages; daily_avg.std() < 10 is
\* decided on the square of the standard deviation
week_pattern_type(weekday_avg, weekend_avg, daily_avg) ==
    IF RatLess(RatMul(weekday_avg, Rat(13, 10)), weekend_avg)
    THEN "weekend_warrior"
    ELSE IF RatLess(RatMul(weekend_avg, Rat(13, 10)), weekday_avg)
    THEN "workweek_active"
    ELSE IF RatLess(variance(daily_avg), Rat(100, 1))
    THEN "consistent_weekly"
    ELSE "variable_weekly"

analyze_week_patterns(d) ==
    LET weekly_data == get_weekly_data(d)
    IN  IF weekly_data = None THEN EmptyDict
        ELSE LET daily_avg == fillna([i \in DOMAIN weekly_data |-> weekly_data[i].mean])
                 weekday_avg == label_mean(daily_avg, weekly_data, <<1, 2, 3, 4, 5>>)
                 weekend_avg == label_mean(daily_avg, weekly_data, <<6, 7>>)
             IN  [pattern_type |-> week_pattern_type(weekday_avg, weekend_avg, daily_avg),
                  most_active_day |-> idxmax(daily_avg),
                  least_active_day |-> idxmin(daily_avg),
                  weekday_avg |-> weekday_avg,
                  weekend_avg |-> weekend_avg,
                  daily_averages |-> daily_avg]

(***************************************************************************)
(* Hourly aggregation and daily analysis (DataModel).                      *)
(***************************************************************************)
\* get_daily_data_grouped_by_hour leaving out the hours with one sample
get_daily_data_grouped_by_hour_two_samples(d, dys, idx) ==
    LET day_data == get_data_for_current_day(d, dys, idx)
    IN  IF day_data = None THEN None
        ELSE IF Len(day_data.rows) = 0 THEN None
        ELSE LET hours == sorted({h \in {dt_hour(day_data.rows[i].timestamp) :
                                            i \in DOMAIN day_data.rows} :
                                    Cardinality({i \in DOMAIN day_data.rows :
                                       dt_hour(day_data.rows[i].timestamp) = h}) > 1})
             IN  [columns |-> {"timestamp", "first", "last", "max", "min", "mean", "std"},
                  rows |-> [k \in DOMAIN hours |->
                    LET group == SelectSeq(day_data.rows,
                                     LAMBDA r : dt_hour(r.timestamp) = hours[k])
                        levels == [i \in DOMAIN group |-> Rat(group[i].activity_level, 1)]
                        values == {group[i].activity_level : i \in DOMAIN group}
                    IN  [timestamp |-> hours[k],
                         first |-> group[1].activity_level,
                         last |-> group[Len(group)].activity_level,
                         max |-> Max(values),
                         min |-> Min(values),
                         mean |-> mean(levels),
                         std2 |-> variance(levels)]]]

\* day_data.groupby(hour)['activity_level'].agg(...).reset_index(): one row
\* per hour of the current day that has a sample, in ascending hour order,
\* the samples of an hour in their order in the frame; the std column is
\* kept as its square, std2.  None without a current day or without rows
\* on it.
get_daily_data_grouped_by_hour(d, dys, idx) ==
    LET day_data == get_data_for_current_day(d, dys, idx)
    IN  IF day_data = None THEN None
        ELSE IF Len(day_data.rows) = 0 THEN None
        ELSE LET hours == sorted({dt_hour(day_data.rows[i].timestamp) :
                                    i \in DOMAIN day_data.rows})
             IN  [columns |-> {"timestamp", "first", "last", "max", "min", "mean", "std"},
                  rows |-> [k \in DOMAIN hours |->
                    LET group == SelectSeq(day_data.rows,
                                     LAMBDA r : dt_hour(r.timestamp) = hours[k])
                        levels == [i \in DOMAIN group |-> Rat(group[i].activity_level, 1)]
                        values == {group[i].activity_level : i \in DOMAIN group}
                    IN  [timestamp |-> hours[k],
                         first |-> group[1].activity_level,
                         last |-> group[Len(group)].activity_level,
                         max |-> Max(values),
                         min |-> Min(values),
                         mean |-> mean(levels),
                         std2 |-> variance(levels)]]]

\* hourly_data.loc[hourly_data['max'].idxmax()]['timestamp'] on the rows of
\* hourly_data: the hour of the first row holding the greatest max
peak_hour(hourly_data) ==
    hourly_data[Min({k \in DOMAIN hourly_data :
                       \A j \in DOMAIN hourly_data :
                           hourly_data[k].max >= hourly_data[j].max})].timestamp

\* hours['mean'].mean() if len(hours) > 0 else 0, hours the rows with
\* timestamp.between(first_hour, last_hour)
segment_activity(hourly_data, first_hour, last_hour) ==
    LET hours == SelectSeq(hourly_data,
                           LAMBDA h : h.timestamp >= first_hour /\ h.timestamp <= last_hour)
    IN  IF Len(hours) > 0 THEN mean([k \in DOMAIN hours |-> hours[k].mean])
        ELSE Rat(0, 1)

\* day_pattern_type with the bimodal test before the three peak tests
day_pattern_type_bimodal_first(morning, midday, evening) ==
    IF /\ RatLess(RatSub(morning, evening), Rat(5, 1))
       /\ RatLess(RatSub(evening, morning), Rat(5, 1))
       /\ RatLess(midday, morning)
    THEN "bimodal"
    ELSE IF RatLess(midday, morning) /\ RatLess(evening, morning)
    THEN "morning_peak"
    ELSE IF RatLess(morning, evening) /\ RatLess(midday, evening)
    THEN "evening_peak"
    ELSE IF RatLess(morning, midday) /\ RatLess(evening, midday)
    THEN "midday_peak"
    ELSE "consistent"

\* day_pattern_type with the evening test before the morning test and >=
\* for >
day_pattern_type_evening_first(morning, midday, evening) ==
    IF ~RatLess(evening, morning) /\ ~RatLess(evening, midday)
    THEN "evening_peak"
    ELSE IF RatLess(midday, morning) /\ RatLess(evening, morning)
    THEN "morning_peak"
    ELSE IF RatLess(morning, midday) /\ RatLess(evening, midday)
    THEN "midday_peak"
    ELSE "consistent"

\* the pattern type of a day with these segment activities
day_pattern_type(morning, midday, evening) ==
    IF RatLess(midday, morning) /\ RatLess(evening, morning)
    THEN "morning_peak"
    ELSE IF RatLess(morning, evening) /\ RatLess(midday, evening)
    THEN "evening_peak"
    ELSE IF RatLess(morning, midday) /\ RatLess(evening, midday)
    THEN "midday_peak"
    ELSE IF /\ RatLess(RatSub(morning, evening), Rat(5, 1))
            /\ RatLess(RatSub(evening, morning), Rat(5, 1))
            /\ RatLess(midday, morning)
    THEN "bimodal"
    ELSE "consistent"

\* the dict analyze_day_patterns returns, without its volatility entries
\* (a mean of standard deviations and the description chosen from it)
analyze_day_patterns(d, dys, idx) ==
    LET hourly_data == get_daily_data_grouped_by_hour(d, dys, idx)
    IN  IF hourly_data = None THEN EmptyDict
        ELSE IF Len(hourly_data.rows) = 0 THEN EmptyDict
        ELSE LET morning_activity == segment_activity(hourly_data.rows, 6, 11)
                 midday_activity == segment_activity(hourly_data.rows, 12, 17)
                 evening_activity == segment_activity(hourly_data.rows, 18, 23)
             IN  [pattern_type |-> day_pattern_type(morning_activity, midday_activity,
                                                    evening_activity),
                  peak_hour |-> peak_hour(hourly_data.rows),
                  morning_activity |-> morning_activity,
                  midday_activity |-> midday_activity,
                  evening_activity |-> evening_activity]

(***************************************************************************)
(* Exceptions of the aggregation and classification functions: the         *)
(* operations in them that raise on some operand, each behind the guards   *)
(* the code puts before it.                                                *)
(***************************************************************************)
\* group['activity_level'].iloc[0] / iloc[-1]: IndexError on no rows
iloc_raises(group) == group = <<>>

\* Series.idxmax() / idxmin(): ValueError on an empty sequence
idxmax_raises(column) == column = <<>>

\* get_candle_data raises: past the guard `window_data is None or
\* len(window_data) == 0`, the iloc of a group that forms a candle
get_candle_data_raises(wd, width) ==
    IF wd = None THEN FALSE
    ELSE IF Len(wd.rows) = 0 THEN FALSE
    ELSE \E k \in DOMAIN interval_groups(wd.rows, width) :
            /\ forms_candle(interval_groups(wd.rows, width)[k].group)
            /\ iloc_raises(interval_groups(wd.rows, width)[k].group)

\* analyze_day_patterns_raises without the guard on hourly_data: None is
\* subscripted, and idxmax is applied to no rows
analyze_day_patterns_raises_without_guard(d, dys, idx) ==
    LET hourly_data == get_daily_data_grouped_by_hour(d, dys, idx)
    IN  IF hourly_data = None THEN TRUE
        ELSE idxmax_raises([k \in DOMAIN hourly_data.rows |-> hourly_data.rows[k].max])

\* analyze_day_patterns raises: past the guard `hourly_data is None or
\* len(hourly_data) == 0`, the idxmax of the max column
analyze_day_patterns_raises(d, dys, idx) ==
    LET hourly_data == get_daily_data_grouped_by_hour(d, dys, idx)
    IN  IF hourly_data = None THEN FALSE
        ELSE IF Len(hourly_data.rows) = 0 THEN FALSE
        ELSE idxmax_raises([k \in DOMAIN hourly_data.rows |-> hourly_data.rows[k].max])

\* analyze_week_patterns raises: past the guard `weekly_data is None or
\* weekly_data.empty`, idxmax / idxmin of daily_avg where it is not empty
\* and not all NaN
analyze_week_patterns_raises(d) ==
    LET weekly_data == get_weekly_data(d)
    IN  IF weekly_data = None THEN FALSE
        ELSE IF Len(weekly_data) = 0 THEN FALSE
        ELSE LET daily_avg == fillna([i \in DOMAIN weekly_data |-> weekly_data[i].mean])
             IN  IF daily_avg = <<>> THEN FALSE
                 ELSE IF \A i \in DOMAIN daily_avg : daily_avg[i] = NaN THEN FALSE
                 ELSE idxmax_raises(daily_avg)

\* where the caller is after a call of the function: at its return, or at
\* the exception it raised
after_call(function, raises) == IF raises THEN "raised" ELSE function

(***************************************************************************)
(* Text of the hour comboboxes: a sequence of characters.  int() accepts   *)
(* an optional sign followed by one or more decimal digits.                *)
(***************************************************************************)
DigitChars == <<"0", "1", "2", "3", "4", "5", "6", "7", "8", "9">>

DigitValue(c) == index(DigitChars, c)

Unsigned(text) ==
    IF text # <<>> /\ Head(text) \in {"-", "+"} THEN Tail(text) ELSE text

int_ok(text) ==
    /\ Unsigned(text) # <<>>
    /\ \A i \in DOMAIN Unsigned(text) : Unsigned(text)[i] \in Range(DigitChars)

RECURSIVE DigitsValue(_)
DigitsValue(digits) ==
    IF digits = <<>> THEN 0
    ELSE 10 * DigitsValue(SubSeq(digits, 1, Len(digits) - 1))
         + DigitValue(digits[Len(digits)])

int(text) ==
    IF Head(text) = "-" THEN 0 - DigitsValue(Unsigned(text))
    ELSE DigitsValue(Unsigned(text))

\* f"{i:02d}"
Format02d(i) ==
    IF i < 0 THEN <<"-">> \o (IF i > -10 THEN <<DigitChars[1 - i]>>
                              ELSE <<DigitChars[((0 - i) \div 10) + 1],
                                     DigitChars[((0 - i) % 10) + 1]>>)
    ELSE <<DigitChars[(i \div 10) + 1], DigitChars[(i % 10) + 1]>>

IntErrorText == "invalid literal for int() with base 10"

(***************************************************************************)
(* generate_high_res_sample_data: seven days from 2023-05-01 at 1-second   *)
(* resolution.  The model keeps, of each day, the first SampleSeconds      *)
(* seconds of hour 8, and one activity level for the random ones.          *)
(***************************************************************************)
generate_high_res_sample_data ==
    [columns |-> {"timestamp", "activity_level", "day_of_week"},
     rows |-> [i \in 1..(7 * SampleSeconds) |->
                 LET ts == (SampleStartDate + ((i - 1) \div SampleSeconds)) * (24 * 3600)
                           + 8 * 3600 + ((i - 1) % SampleSeconds)
                 IN  [timestamp |-> ts, activity_level |-> 50,
                      day_of_week |-> dt_day_name(ts)]]]

(***************************************************************************)
(* KinetiCandlesApp (KinetiCandles_v3.py): the view updates.               *)
(***************************************************************************)
ErrorBox(title, text) == [kind |-> "error", title |-> title, text |-> text]
InfoBox(title) == [kind |-> "info", title |-> title, text |-> ""]

\* window_error letting a five-hour window through
window_error_cap_off_by_one(start, end) ==
    IF start < 0 \/ start > 23 THEN "Start hour must be between 0 and 23"
    ELSE IF end < 0 \/ end > 24 THEN "End hour must be between 0 and 24"
    ELSE IF end <= start THEN "End hour must be greater than start hour"
    ELSE IF end - start > 5 THEN "Time window must be 4 hours or less"
    ELSE ""

\* the reason the window (start, end) is refused for, "" when it is accepted
window_error(start, end) ==
    IF start < 0 \/ start > 23 THEN "Start hour must be between 0 and 23"
    ELSE IF end < 0 \/ end > 24 THEN "End hour must be between 0 and 24"
    ELSE IF end <= start THEN "End hour must be greater than start hour"
    ELSE IF end - start > 4 THEN "Time window must be 4 hours or less"
    ELSE ""

View(view, start, end, dialogs) ==
    [current_view |-> view, selected_start_hour |-> start,
     selected_end_hour |-> end, dialogs |-> dialogs]

\* update_high_res_view on model (d, dys, idx), view state (view, width, start,
\* end) and combobox texts (start_text, end_text): the view state it leaves
\* and the dialogs it shows
update_high_res_view(d, dys, idx, view, width, start_text, end_text, start, end) ==
    IF ~int_ok(start_text)
    THEN View(view, start, end, <<ErrorBox("Invalid Time Window", IntErrorText)>>)
    ELSE IF ~int_ok(end_text)
    THEN View(view, int(start_text), end,
              <<ErrorBox("Invalid Time Window", IntErrorText)>>)
    ELSE LET s == int(start_text)
             e == int(end_text)
         IN  IF window_error(s, e) # ""
             THEN View(view, s, e,
                       <<ErrorBox("Invalid Time Window", window_error(s, e))>>)
             ELSE IF get_current_date(dys, idx) = None
             THEN View("high_res", s, e, <<>>)
             ELSE IF get_high_resolution_data(d, dys, idx, s, e) = None
             THEN View("high_res", s, e, <<InfoBox("No Data")>>)
             ELSE IF Len(get_candle_data(
                           get_high_resolution_data(d, dys, idx, s, e), width)) = 0
             THEN View("high_res", s, e, <<InfoBox("Insufficient Data")>>)
             ELSE View("high_res", s, e, <<>>)

update_day_view(d, dys, idx) ==
    IF get_current_date(dys, idx) = None THEN <<>>
    ELSE IF get_data_for_current_day(d, dys, idx) = None THEN <<InfoBox("No Data")>>
    ELSE IF Len(get_data_for_current_day(d, dys, idx).rows) = 0
    THEN <<InfoBox("No Data")>>
    ELSE <<>>

update_view(d, dys, idx, view, width, start_text, end_text, start, end) ==
    IF d = None THEN View(view, start, end, <<>>)
    ELSE IF view = "day" THEN View(view, start, end, update_day_view(d, dys, idx))
    ELSE IF view = "week" THEN View(view, start, end, <<>>)
    ELSE update_high_res_view(d, dys, idx, view, width, start_text, end_text,
                              start, end)

(***************************************************************************)
(* KinetiCandlesApp (KinetiCandles_v3.py): the event handlers.             *)
(***************************************************************************)
\* texts the user leaves in the hour comboboxes: list entries and typed text
AppHourTexts == {Format02d(5), Format02d(8), Format02d(10), <<"x">>}

IntervalSeconds == {HIGHRES_INTERVALS[i].seconds : i \in DOMAIN HIGHRES_INTERVALS}

IntervalName(seconds) ==
    (CHOOSE i \in Range(HIGHRES_INTERVALS) : i.seconds = seconds).name

\* simulation_thread = None: no run_simulation has been started
NoThread == [pc |-> "none", days |-> <<>>, start_day |-> 0]

InitCore ==
    /\ window_data = None
    /\ interval_seconds = 60
    /\ candle_data = <<>>
    /\ analysis = None
    /\ pc = "idle"
    /\ thread = NoThread
    /\ after = 0

\* KinetiCandlesApp.__init__ and DataModel.__init__
Init ==
    /\ data = None
    /\ days = <<>>
    /\ current_day_index = 0
    /\ has_second_resolution = FALSE
    /\ current_day = 0
    /\ user_data = None
    /\ using_sample_data = FALSE
    /\ current_view = "day"
    /\ selected_start_hour = 8
    /\ selected_end_hour = 10
    /\ candle_interval_seconds = 60
    /\ simulation_active = FALSE
    /\ simulation_day_index = 0
    /\ start_hour_var = Format02d(8)
    /\ end_hour_var = Format02d(10)
    /\ interval_var = "1 minute"
    /\ event = [handler |-> "__init__", dialogs |-> <<>>]
    /\ InitCore

\* the view state and the dialogs a handler leaves
SetView(handler, v, more) ==
    /\ current_view' = v.current_view
    /\ selected_start_hour' = v.selected_start_hour
    /\ selected_end_hour' = v.selected_end_hour
    /\ event' = [handler |-> handler, dialogs |-> v.dialogs \o more]

\* SetModel that leaves the cursor where it is
SetModel_keeping_cursor(m) ==
    /\ data' = m.data
    /\ days' = m.days
    /\ current_day_index' = current_day_index
    /\ has_second_resolution' = m.has_second_resolution

SetModel(m) ==
    /\ data' = m.data
    /\ days' = m.days
    /\ current_day_index' = m.current_day_index
    /\ has_second_resolution' = m.has_second_resolution

\* the user types or picks the text of an hour combobox
EditStartHour(text) ==
    /\ start_hour_var' = text
    /\ event' = [handler |-> "edit", dialogs |-> <<>>]
    /\ UNCHANGED <<modelVars, current_day, user_data, using_sample_data, current_view,
                   selected_start_hour, selected_end_hour, candle_interval_seconds,
                   simulation_active, simulation_day_index, end_hour_var,
                   interval_var, coreVars>>

EditEndHour(text) ==
    /\ end_hour_var' = text
    /\ event' = [handler |-> "edit", dialogs |-> <<>>]
    /\ UNCHANGED <<modelVars, current_day, user_data, using_sample_data, current_view,
                   selected_start_hour, selected_end_hour, candle_interval_seconds,
                   simulation_active, simulation_day_index, start_hour_var,
                   interval_var, coreVars>>

\* load_data: the file dialog returned file
LoadData(file) ==
    /\ IF LoadException(file) # ""
       THEN /\ event' = [handler |-> "load_data",
                         dialogs |-> <<ErrorBox("Error Loading Data",
                                                LoadException(file))>>]
            /\ UNCHANGED <<modelVars, user_data, using_sample_data, current_view,
                           selected_start_hour, selected_end_hour, simulation_active>>
       ELSE \E m \in load_data_outcomes(file) :
                /\ SetModel(m)
                /\ user_data' = m.data
                /\ using_sample_data' = FALSE
                /\ simulation_active' = FALSE
                /\ SetView("load_data",
                           update_view(m.data, m.days, m.current_day_index,
                                       current_view, candle_interval_seconds,
                                       start_hour_var, end_hour_var,
                                       selected_start_hour, selected_end_hour),
                           \* min() of no timestamps is NaT, and NaT.date() raises
                           IF Len(m.data.rows) = 0
                           THEN <<ErrorBox("Error Loading Data",
                                           "NaTType does not support date")>>
                           ELSE <<InfoBox("Data Loaded")>>)
    /\ UNCHANGED <<current_day, candle_interval_seconds, simulation_day_index,
                   start_hour_var, end_hour_var, interval_var, coreVars>>

MoveDay(handler, idx) ==
    /\ data # None
    /\ current_day_index' = idx
    /\ SetView(handler,
               update_view(data, days, idx, current_view, candle_interval_seconds,
                           start_hour_var, end_hour_var,
                           selected_start_hour, selected_end_hour),
               <<>>)
    /\ UNCHANGED <<data, days, has_second_resolution, current_day, user_data,
                   using_sample_data, candle_interval_seconds, simulation_active,
                   simulation_day_index, start_hour_var, end_hour_var, interval_var,
                   coreVars>>

NextDay == MoveDay("next_day", next_day(days, current_day_index))

PreviousDay == MoveDay("previous_day", previous_day(days, current_day_index))

OnDaySelected(selected_day) ==
    /\ data # None
    /\ LET day_index == find_day_index_by_name(data, days, selected_day)
       IN  IF day_index = None
           THEN /\ event' = [handler |-> "on_day_selected",
                             dialogs |-> <<InfoBox("No Data")>>]
                /\ UNCHANGED <<current_day_index, current_view, selected_start_hour,
                               selected_end_hour>>
           ELSE /\ current_day_index' = day_index.index
                /\ SetView("on_day_selected",
                           update_view(data, days, day_index.index, "day",
                                       candle_interval_seconds,
                                       start_hour_var, end_hour_var,
                                       selected_start_hour, selected_end_hour),
                           <<>>)
    /\ UNCHANGED <<data, days, has_second_resolution, current_day, user_data,
                   using_sample_data, candle_interval_seconds, simulation_active,
                   simulation_day_index, start_hour_var, end_hour_var, interval_var,
                   coreVars>>

ToggleSimulation ==
    /\ IF using_sample_data
       THEN IF user_data # None
            THEN /\ simulation_active' = FALSE
                 /\ using_sample_data' = FALSE
                 /\ SetModel([data |-> user_data,
                              days |-> unique_days(user_data),
                              current_day_index |-> 0,
                              has_second_resolution |-> detect_data_resolution(user_data)])
                 /\ SetView("toggle_simulation",
                            update_view(user_data, unique_days(user_data), 0, "day",
                                        candle_interval_seconds,
                                        start_hour_var, end_hour_var,
                                        selected_start_hour, selected_end_hour),
                            <<InfoBox("User Data Restored")>>)
            ELSE /\ event' = [handler |-> "toggle_simulation",
                              dialogs |-> <<InfoBox("No User Data")>>]
                 /\ UNCHANGED <<modelVars, using_sample_data, current_view,
                                selected_start_hour, selected_end_hour,
                                simulation_active>>
       ELSE LET sample_df == generate_high_res_sample_data
            IN  /\ using_sample_data' = TRUE
                /\ simulation_active' = TRUE
                /\ SetModel([data |-> sample_df,
                             days |-> unique_days(sample_df),
                             current_day_index |-> 0,
                             has_second_resolution |-> TRUE])
                /\ SetView("toggle_simulation",
                           update_view(sample_df, unique_days(sample_df), 0, "day",
                                       candle_interval_seconds,
                                       start_hour_var, end_hour_var,
                                       selected_start_hour, selected_end_hour),
                           <<InfoBox("Sample Data Loaded")>>)
    /\ UNCHANGED <<current_day, user_data, candle_interval_seconds,
                   simulation_day_index, start_hour_var, end_hour_var, interval_var,
                   coreVars>>

SwitchView(view_type) ==
    /\ IF data = None
       THEN /\ event' = [handler |-> "switch_view", dialogs |-> <<InfoBox("No Data")>>]
            /\ UNCHANGED <<current_view, selected_start_hour, selected_end_hour>>
       ELSE SetView("switch_view",
                    update_view(data, days, current_day_index, view_type,
                                candle_interval_seconds, start_hour_var, end_hour_var,
                                selected_start_hour, selected_end_hour),
                    <<>>)
    /\ UNCHANGED <<modelVars, current_day, user_data, using_sample_data,
                   candle_interval_seconds, simulation_active, simulation_day_index,
                   start_hour_var, end_hour_var, interval_var, coreVars>>

\* the "Show High-Resolution" button
UpdateHighResView ==
    /\ SetView("update_high_res_view",
               update_high_res_view(data, days, current_day_index, current_view,
                                    candle_interval_seconds, start_hour_var,
                                    end_hour_var, selected_start_hour,
                                    selected_end_hour),
               <<>>)
    /\ UNCHANGED <<modelVars, current_day, user_data, using_sample_data,
                   candle_interval_seconds, simulation_active, simulation_day_index,
                   start_hour_var, end_hour_var, interval_var, coreVars>>

\* on_interval_selected (the combobox) and set_candle_interval (the menu)
SetInterval(handler, seconds) ==
    /\ candle_interval_seconds' = seconds
    /\ interval_var' = IntervalName(seconds)
    /\ IF current_view = "high_res"
       THEN SetView(handler,
                    update_high_res_view(data, days, current_day_index, current_view,
                                         seconds, start_hour_var, end_hour_var,
                                         selected_start_hour, selected_end_hour),
                    <<>>)
       ELSE /\ event' = [handler |-> handler, dialogs |-> <<>>]
            /\ UNCHANGED <<current_view, selected_start_hour, selected_end_hour>>
    /\ UNCHANGED <<modelVars, current_day, user_data, using_sample_data,
                   simulation_active, simulation_day_index, start_hour_var,
                   end_hour_var, coreVars>>

OnIntervalSelected(seconds) == SetInterval("on_interval_selected", seconds)

SetCandleInterval(seconds) == SetInterval("set_candle_interval", seconds)

(***************************************************************************)
(* KinetiCandlesApp (candle.py).  The application keeps the DataFrame in   *)
(* self.data and the cursor in self.current_day; the distinct dates are    *)
(* recomputed from the frame by every handler.  An exception no handler    *)
(* catches ends the callback where it is raised: what was assigned before  *)
(* it stays, and no dialog is shown.                                       *)
(***************************************************************************)
\* the frame after the timestamp conversion and the day_of_week column
candle_frame(file) ==
    [columns |-> file.columns \cup {"day_of_week"},
     rows |-> [i \in DOMAIN file.rows |->
                 LET ts == to_datetime(file.rows[i].timestamp)
                 IN  [timestamp |-> ts,
                      activity_level |-> file.rows[i].activity_level,
                      day_of_week |-> dt_day_name(ts)]]]

\* the exception self.data['timestamp'].dt raises on frame d, "" when none:
\* the column is missing, or it still holds the file's text
timestamp_error(d) ==
    IF "timestamp" \notin d.columns THEN "'timestamp'"
    ELSE IF "day_of_week" \notin d.columns
    THEN "Can only use .dt accessor with datetimelike values"
    ELSE ""

\* the exception self.data['day_of_week'] raises on frame d, "" when none
day_of_week_error(d) ==
    IF "day_of_week" \notin d.columns THEN "'day_of_week'" ELSE ""

\* update_view_label raises on frame d in this view
update_view_label_raises(d, view) ==
    view \in {"day", "high_res"} /\ timestamp_error(d) # ""

\* plot_kcandles: the cursor it leaves and the dialogs it shows
plot_kcandles(d, view, cur) ==
    IF d = None THEN [current_day |-> cur, dialogs |-> <<>>]
    ELSE IF view = "week"
    THEN [current_day |-> cur,
          dialogs |-> IF day_of_week_error(d) # ""
                      THEN <<ErrorBox("Error Plotting Data", day_of_week_error(d))>>
                      ELSE <<>>]
    ELSE IF timestamp_error(d) # ""
    THEN [current_day |-> cur,
          dialogs |-> <<ErrorBox("Error Plotting Data", timestamp_error(d))>>]
    ELSE [current_day |-> IF unique_days(d) # <<>> /\ cur >= Len(unique_days(d))
                          THEN 0 ELSE cur,
          dialogs |-> <<>>]

\* plot_week_view of candle.py on a frame with the day_of_week column: the
\* candle drawn for each label of the week that has a sample
candle_plot_week_view(d) ==
    LET labels == SelectSeq(DAYS_OF_WEEK,
                      LAMBDA day : \E k \in DOMAIN d.rows : d.rows[k].day_of_week = day)
    IN  [i \in DOMAIN labels |->
           LET day_data == SelectSeq(d.rows, LAMBDA r : r.day_of_week = labels[i])
               values == {day_data[k].activity_level : k \in DOMAIN day_data}
           IN  [day |-> labels[i],
                open_val |-> Rat(day_data[1].activity_level, 1),
                close_val |-> Rat(day_data[Len(day_data)].activity_level, 1),
                high_val |-> Rat(Max(values), 1),
                low_val |-> Rat(Min(values), 1)]]

\* a > b on floats that may be NaN: a comparison with NaN is False
float_greater(a, b) == a # NaN /\ b # NaN /\ RatLess(b, a)

\* abs(a - b) < bound on floats that may be NaN
float_abs_diff_less(a, b, bound) ==
    /\ a # NaN
    /\ b # NaN
    /\ RatLess(RatSub(a, b), Rat(bound, 1))
    /\ RatLess(RatSub(b, a), Rat(bound, 1))

\* hourly_data[hourly_data['timestamp'].between(first_hour, last_hour)]
\* ['mean'].mean() in candle.py: the mean of an empty selection is NaN
candle_segment_activity(hourly_data, first_hour, last_hour) ==
    LET hours == SelectSeq(hourly_data,
                           LAMBDA h : h.timestamp >= first_hour /\ h.timestamp <= last_hour)
    IN  IF Len(hours) = 0 THEN NaN
        ELSE mean([k \in DOMAIN hours |-> hours[k].mean])

\* the if/elif chain of candle.py's analyze_day_patterns
candle_day_pattern_type(morning, midday, evening) ==
    IF float_greater(morning, midday) /\ float_greater(morning, evening)
    THEN "Morning Peak"
    ELSE IF float_greater(evening, morning) /\ float_greater(evening, midday)
    THEN "Evening Peak"
    ELSE IF float_greater(midday, morning) /\ float_greater(midday, evening)
    THEN "Midday Peak"
    ELSE IF float_abs_diff_less(morning, evening, 5) /\ float_greater(morning, midday)
    THEN "Bimodal Pattern"
    ELSE "Consistent Activity"

\* what analyze_day_patterns of candle.py computes for the day at
\* current_day of frame d and writes to the analysis text, without the
\* volatility; None when it returns before computing anything
candle_analyze_day_patterns(d, cur) ==
    LET dys == unique_days(d)
    IN  IF dys = <<>> \/ cur >= Len(dys) THEN None
        ELSE LET day_data == SelectSeq(d.rows,
                                LAMBDA r : dt_date(r.timestamp) = dys[cur + 1])
                 hours == sorted({dt_hour(day_data[i].timestamp) : i \in DOMAIN day_data})
                 hourly_data ==
                    [k \in DOMAIN hours |->
                       LET group == SelectSeq(day_data,
                                        LAMBDA r : dt_hour(r.timestamp) = hours[k])
                           levels == [i \in DOMAIN group |->
                                         Rat(group[i].activity_level, 1)]
                           values == {group[i].activity_level : i \in DOMAIN group}
                       IN  [timestamp |-> hours[k],
                            mean |-> mean(levels),
                            std2 |-> variance(levels),
                            max |-> Max(values),
                            min |-> Min(values)]]
                 morning_activity == candle_segment_activity(hourly_data, 6, 11)
                 midday_activity == candle_segment_activity(hourly_data, 12, 17)
                 evening_activity == candle_segment_activity(hourly_data, 18, 23)
             IN  [pattern_type |-> candle_day_pattern_type(morning_activity,
                                       midday_activity, evening_activity),
                  peak_hour |-> peak_hour(hourly_data),
                  morning_activity |-> morning_activity,
                  midday_activity |-> midday_activity,
                  evening_activity |-> evening_activity]

\* the reason candle.py refuses the window (start, end) for, "" when accepted
candle_window_error(start, end) ==
    IF start < 0 \/ start > 23 THEN "Start hour must be between 0 and 23"
    ELSE IF end < 0 \/ end > 24 THEN "End hour must be between 0 and 24"
    ELSE IF end <= start \/ end - start > 4
    THEN "Time window must be between 1 and 4 hours"
    ELSE ""

v3Vars == <<days, current_day_index, has_second_resolution, user_data,
            using_sample_data, candle_interval_seconds, interval_var,
            simulation_day_index>>

CandleEvent(handler, dialogs) == event' = [handler |-> handler, dialogs |-> dialogs]

\* load_data: the file dialog returned file
CandleLoadData(file) ==
    /\ IF ~(required_columns \subseteq read_csv(file).columns)
       THEN /\ data' = read_csv(file)
            /\ CandleEvent("load_data",
                           <<ErrorBox("Invalid Data Format", MissingColumnsText)>>)
            /\ UNCHANGED current_day
       ELSE IF LoadException(file) # ""
       THEN /\ data' = read_csv(file)
            /\ CandleEvent("load_data",
                           <<ErrorBox("Error Loading Data", LoadException(file))>>)
            /\ UNCHANGED current_day
       ELSE /\ data' = candle_frame(file)
            /\ current_day' = plot_kcandles(candle_frame(file), current_view, 0).current_day
            /\ CandleEvent("load_data",
                           plot_kcandles(candle_frame(file), current_view, 0).dialogs)
    /\ UNCHANGED <<v3Vars, current_view, selected_start_hour, selected_end_hour,
                   simulation_active, start_hour_var, end_hour_var, coreVars>>

\* next_day / previous_day moving the cursor to cur
CandleMoveDay(handler, cur) ==
    /\ data # None
    /\ IF timestamp_error(data) # "" \/ unique_days(data) = <<>>
       THEN /\ CandleEvent(handler, <<>>)
            /\ UNCHANGED current_day
       ELSE /\ current_day' = plot_kcandles(data, current_view, cur).current_day
            /\ CandleEvent(handler, plot_kcandles(data, current_view, cur).dialogs)
    /\ UNCHANGED <<v3Vars, data, current_view, selected_start_hour, selected_end_hour,
                   simulation_active, start_hour_var, end_hour_var, coreVars>>

CandleNextDay ==
    CandleMoveDay("next_day",
                  IF timestamp_error(data) # "" \/ unique_days(data) = <<>>
                  THEN current_day
                  ELSE (current_day + 1) % Len(unique_days(data)))

CandlePreviousDay ==
    CandleMoveDay("previous_day",
                  IF timestamp_error(data) # "" \/ unique_days(data) = <<>>
                  THEN current_day
                  ELSE (current_day - 1) % Len(unique_days(data)))

CandleSwitchView(view_type) ==
    /\ IF data = None
       THEN /\ CandleEvent("switch_view", <<InfoBox("No Data")>>)
            /\ UNCHANGED <<current_view, current_day>>
       ELSE /\ current_view' = view_type
            /\ IF update_view_label_raises(data, view_type)
               THEN /\ CandleEvent("switch_view", <<>>)
                    /\ UNCHANGED current_day
               ELSE /\ current_day' = plot_kcandles(data, view_type, current_day).current_day
                    /\ CandleEvent("switch_view",
                                   plot_kcandles(data, view_type, current_day).dialogs)
    /\ UNCHANGED <<v3Vars, data, selected_start_hour, selected_end_hour,
                   simulation_active, start_hour_var, end_hour_var, coreVars>>

CandleUpdateHighResView ==
    /\ IF ~int_ok(start_hour_var)
       THEN /\ CandleEvent("update_high_res_view",
                           <<ErrorBox("Invalid Time Window", IntErrorText)>>)
            /\ UNCHANGED <<selected_start_hour, selected_end_hour, current_day>>
       ELSE IF ~int_ok(end_hour_var)
       THEN /\ selected_start_hour' = int(start_hour_var)
            /\ CandleEvent("update_high_res_view",
                           <<ErrorBox("Invalid Time Window", IntErrorText)>>)
            /\ UNCHANGED <<selected_end_hour, current_day>>
       ELSE /\ selected_start_hour' = int(start_hour_var)
            /\ selected_end_hour' = int(end_hour_var)
            /\ IF candle_window_error(int(start_hour_var), int(end_hour_var)) # ""
               THEN /\ CandleEvent("update_high_res_view",
                                   <<ErrorBox("Invalid Time Window",
                                              candle_window_error(int(start_hour_var),
                                                                  int(end_hour_var)))>>)
                    /\ UNCHANGED current_day
               ELSE IF current_view # "high_res"
                       \/ (data # None /\ update_view_label_raises(data, current_view))
               THEN /\ CandleEvent("update_high_res_view", <<>>)
                    /\ UNCHANGED current_day
               ELSE /\ current_day' = plot_kcandles(data, current_view, current_day).current_day
                    /\ CandleEvent("update_high_res_view",
                                   plot_kcandles(data, current_view, current_day).dialogs)
    /\ UNCHANGED <<v3Vars, data, current_view, simulation_active, start_hour_var,
                   end_hour_var, coreVars>>

CandleOnDaySelected(selected_day) ==
    /\ data # None
    /\ IF day_of_week_error(data) # ""
       THEN /\ CandleEvent("on_day_selected", <<>>)
            /\ UNCHANGED <<current_day, current_view>>
       ELSE LET day_data == SelectSeq(data.rows, LAMBDA r : r.day_of_week = selected_day)
            IN  IF Len(day_data) = 0
                THEN /\ CandleEvent("on_day_selected", <<InfoBox("No Data")>>)
                     /\ UNCHANGED <<current_day, current_view>>
                ELSE LET cur == index(unique_days(data), dt_date(day_data[1].timestamp))
                     IN  /\ current_view' = "day"
                         /\ current_day' = plot_kcandles(data, "day", cur).current_day
                         /\ CandleEvent("on_day_selected",
                                        plot_kcandles(data, "day", cur).dialogs)
    /\ UNCHANGED <<v3Vars, data, selected_start_hour, selected_end_hour,
                   simulation_active, start_hour_var, end_hour_var, coreVars>>

(***************************************************************************)
(* The simulation of candle.py: toggle_simulation starts run_simulation in *)
(* a thread of its own, which moves the cursor and schedules the refresh   *)
(* of the view in the UI thread.  A step of the thread is the code between *)
(* two points where the UI thread can run.                                 *)
(***************************************************************************)
MaxAfter == 2    \* scheduled refreshes not yet run

appOnlyVars == <<v3Vars, selected_start_hour, selected_end_hour, start_hour_var,
                 end_hour_var, window_data, interval_seconds, candle_data, analysis, pc>>

\* toggle_simulation: stops the simulation, or starts it in a new thread;
\* a thread is started when none is running
CandleToggleSimulation ==
    /\ IF data = None
       THEN /\ CandleEvent("toggle_simulation", <<InfoBox("No Data")>>)
            /\ UNCHANGED <<simulation_active, thread>>
       ELSE IF simulation_active
       THEN /\ simulation_active' = FALSE
            /\ CandleEvent("toggle_simulation", <<>>)
            /\ UNCHANGED thread
       ELSE /\ thread.pc \in {"none", "done"}
            /\ simulation_active' = TRUE
            /\ thread' = [pc |-> "start", days |-> <<>>, start_day |-> 0]
            /\ CandleEvent("toggle_simulation", <<>>)
    /\ UNCHANGED <<appOnlyVars, data, current_day, current_view, after>>

\* run_simulation up to its loop: the day view, its local days and start_day;
\* the thread ends where the dates cannot be read or there is none
RunSimulationStart ==
    /\ thread.pc = "start"
    /\ current_view' = "day"
    /\ thread' = IF timestamp_error(data) # "" \/ unique_days(data) = <<>>
                 THEN [thread EXCEPT !.pc = "done"]
                 ELSE [pc |-> "loop", days |-> unique_days(data),
                       start_day |-> current_day]
    /\ UNCHANGED <<appOnlyVars, data, current_day, simulation_active, event, after>>

\* the test of the while loop and the body up to the sleep: the cursor
\* moves by one modulo the local days and a refresh is scheduled
RunSimulationAdvance ==
    /\ thread.pc = "loop"
    /\ IF ~simulation_active
       THEN /\ thread' = [thread EXCEPT !.pc = "done"]
            /\ UNCHANGED <<current_day, after>>
       ELSE /\ after < MaxAfter
            /\ current_day' = (current_day + 1) % Len(thread.days)
            /\ after' = after + 1
            /\ thread' = [thread EXCEPT !.pc = "sleep"]
    /\ UNCHANGED <<appOnlyVars, data, current_view, simulation_active, event>>

\* the sleep is over, or was left because the simulation was stopped; the
\* simulation stops itself where the cursor is start_day again
RunSimulationCheck ==
    /\ thread.pc = "sleep"
    /\ IF current_day = thread.start_day
       THEN /\ simulation_active' = FALSE
            /\ thread' = [thread EXCEPT !.pc = "done"]
       ELSE /\ thread' = [thread EXCEPT !.pc = "loop"]
            /\ UNCHANGED simulation_active
    /\ UNCHANGED <<appOnlyVars, data, current_day, current_view, event, after>>

\* the UI thread runs a scheduled refresh: update_view_label, plot_kcandles
\* and analyze_patterns
RunAfter ==
    /\ after > 0
    /\ after' = after - 1
    /\ IF update_view_label_raises(data, current_view)
       THEN /\ CandleEvent("after", <<>>)
            /\ UNCHANGED current_day
       ELSE /\ current_day' = plot_kcandles(data, current_view, current_day).current_day
            /\ CandleEvent("after", plot_kcandles(data, current_view, current_day).dialogs)
    /\ UNCHANGED <<appOnlyVars, data, current_view, simulation_active, thread>>

(***************************************************************************)
(* Spec: the v3 application's data and navigation.  The user loads files,  *)
(* toggles the sample data, moves between days and views, and leaves the   *)
(* hour comboboxes and the candle size as they are.                        *)
(***************************************************************************)
Next ==
    \/ \E file \in Files : LoadData(file)
    \/ NextDay
    \/ PreviousDay
    \/ \E selected_day \in Range(DAYS_OF_WEEK) : OnDaySelected(selected_day)
    \/ ToggleSimulation
    \/ \E view_type \in {"day", "week", "high_res"} : SwitchView(view_type)
    \/ UpdateHighResView

Spec == Init /\ [][Next]_vars

(***************************************************************************)
(* SpecTimers: the v3 application with Tk's timer queue.  `after` counts   *)
(* the simulation_step callbacks waiting in the queue; Tk runs a waiting   *)
(* callback, which is the only step the program takes without the user.    *)
(* root.after(3000, self.simulation_step) stands inside simulation_step    *)
(* alone and no handler calls simulation_step, so no handler of Next adds  *)
(* to the queue; SimulationStep is the step Tk would take.                 *)
(***************************************************************************)
\* simulation_step, run by Tk from the timer queue
SimulationStep ==
    /\ after > 0
    /\ IF ~simulation_active
       THEN /\ after' = after - 1
            /\ UNCHANGED <<current_day_index, simulation_active, event>>
       ELSE IF days = <<>>
       THEN \* len(self.model.days) = 0: ZeroDivisionError in the callback
            /\ after' = after - 1
            /\ event' = [handler |-> "simulation_step", dialogs |-> <<>>]
            /\ UNCHANGED <<current_day_index, simulation_active>>
       ELSE LET next_day_index == (current_day_index + 1) % Len(days)
                shown == update_day_view(data, days, next_day_index)
            IN  /\ current_day_index' = next_day_index
                /\ IF next_day_index = simulation_day_index
                   THEN /\ simulation_active' = FALSE
                        /\ after' = after - 1
                        /\ event' = [handler |-> "simulation_step",
                                     dialogs |-> shown \o
                                                 <<InfoBox("Simulation Complete")>>]
                   ELSE /\ simulation_active' = simulation_active
                        /\ after' = after
                        /\ event' = [handler |-> "simulation_step",
                                     dialogs |-> shown]
    /\ UNCHANGED <<data, days, has_second_resolution, current_day, user_data,
                   using_sample_data, current_view, selected_start_hour,
                   selected_end_hour, candle_interval_seconds, start_hour_var,
                   end_hour_var, interval_var, simulation_day_index,
                   window_data, interval_seconds, candle_data, analysis, pc, thread>>

SpecTimers == Init /\ [][Next]_vars /\ WF_vars(SimulationStep)

(***************************************************************************)
(* SpecView: the v3 application's view state.  The user edits the hour     *)
(* comboboxes, picks candle sizes, switches views and moves between days,  *)
(* over one of two files.                                                  *)
(***************************************************************************)
ViewFiles ==
    { File(<<RawRow(Cell(SampleStartDate, 8, 0, 0), 10),
             RawRow(Cell(SampleStartDate, 8, 0, 30), 20),
             RawRow(Cell(SampleStartDate + 1, 9, 0, 0), 10)>>),
      GarbageFile }

NextView ==
    \/ \E text \in AppHourTexts : EditStartHour(text)
    \/ \E text \in AppHourTexts : EditEndHour(text)
    \/ \E file \in ViewFiles : LoadData(file)
    \/ NextDay
    \/ \E view_type \in {"day", "week", "high_res"} : SwitchView(view_type)
    \/ UpdateHighResView
    \/ \E seconds \in IntervalSeconds : OnIntervalSelected(seconds)
    \/ \E seconds \in IntervalSeconds : SetCandleInterval(seconds)

SpecView == Init /\ [][NextView]_vars

(***************************************************************************)
(* SpecWindow: the window selector on its own.  Data is loaded, the user   *)
(* has left any two texts in the hour comboboxes, and asks for the         *)
(* high-resolution view by the button or by the view switch.               *)
(***************************************************************************)
WindowFile ==
    File(<<RawRow(Cell(SampleStartDate, 8, 0, 0), 10),
           RawRow(Cell(SampleStartDate, 8, 0, 30), 20)>>)

WindowHours == -1 .. 26

WindowTexts == {Format02d(i) : i \in WindowHours} \cup {<<>>, <<"x">>}

InitWindow ==
    /\ data = load_data(WindowFile).data
    /\ days = load_data(WindowFile).days
    /\ current_day_index = 0
    /\ has_second_resolution = load_data(WindowFile).has_second_resolution
    /\ current_day = 0
    /\ user_data = load_data(WindowFile).data
    /\ using_sample_data = FALSE
    /\ current_view = "day"
    /\ selected_start_hour = 8
    /\ selected_end_hour = 10
    /\ candle_interval_seconds = 60
    /\ simulation_active = FALSE
    /\ simulation_day_index = 0
    /\ start_hour_var \in WindowTexts
    /\ end_hour_var \in WindowTexts
    /\ interval_var = "1 minute"
    /\ event = [handler |-> "edit", dialogs |-> <<>>]
    /\ InitCore

NextWindow ==
    \/ UpdateHighResView
    \/ SwitchView("high_res")

SpecWindow == InitWindow /\ [][NextWindow]_vars

(***************************************************************************)
(* SpecCandle: the candle.py application.  The user loads files, moves     *)
(* between days and views, edits the hour comboboxes and applies them.     *)
(***************************************************************************)
CandleFiles ==
    { File(<<>>), WeekFile } \cup ViewFiles \cup BadFiles

CandleHourTexts == {Format02d(8), Format02d(10), <<"x">>}

NextCandle ==
    \/ \E file \in CandleFiles : CandleLoadData(file)
    \/ CandleNextDay
    \/ CandlePreviousDay
    \/ \E view_type \in {"day", "week", "high_res"} : CandleSwitchView(view_type)
    \/ CandleUpdateHighResView
    \/ \E selected_day \in Range(DAYS_OF_WEEK) : CandleOnDaySelected(selected_day)
    \/ \E text \in CandleHourTexts : EditStartHour(text)
    \/ \E text \in CandleHourTexts : EditEndHour(text)

SpecCandle == Init /\ [][NextCandle]_vars

(***************************************************************************)
(* SpecThread: candle.py with its simulation.  The user loads files of one *)
(* date and of three, moves between days, picks weekdays and starts and    *)
(* stops the simulation, while run_simulation and the refreshes it         *)
(* schedules take their steps.                                             *)
(***************************************************************************)
ThreadFiles ==
    { File(<<RawRow(Cell(SampleStartDate, 8, 0, 0), 10)>>), WeekFile }

InitThread ==
    /\ data = None
    /\ days = <<>>
    /\ current_day_index = 0
    /\ has_second_resolution = FALSE
    /\ current_day = 0
    /\ user_data = None
    /\ using_sample_data = FALSE
    /\ current_view = "day"
    /\ selected_start_hour = 8
    /\ selected_end_hour = 10
    /\ candle_interval_seconds = 60
    /\ simulation_active = FALSE
    /\ simulation_day_index = 0
    /\ start_hour_var = Format02d(8)
    /\ end_hour_var = Format02d(10)
    /\ interval_var = "1 minute"
    /\ event = [handler |-> "__init__", dialogs |-> <<>>]
    /\ InitCore

NextThread ==
    \/ \E file \in ThreadFiles : CandleLoadData(file)
    \/ CandleNextDay
    \/ CandlePreviousDay
    \/ \E selected_day \in {"Monday", "Tuesday"} : CandleOnDaySelected(selected_day)
    \/ CandleToggleSimulation
    \/ RunSimulationStart
    \/ RunSimulationAdvance
    \/ RunSimulationCheck
    \/ RunAfter

SpecThread == InitThread /\ [][NextThread]_vars

(***************************************************************************)
(* SpecSimulation: a simulation of candle.py left to itself.  The user has *)
(* loaded a file, moved to one of its days and started the simulation; no  *)
(* handler runs after that.  The thread and the UI thread's event loop     *)
(* keep running: each step that stays possible is taken.                   *)
(***************************************************************************)
InitSimulation ==
    /\ \E file \in ThreadFiles :
          /\ data = candle_frame(file)
          /\ current_day \in 0..(Len(unique_days(candle_frame(file))) - 1)
    /\ days = <<>>
    /\ current_day_index = 0
    /\ has_second_resolution = FALSE
    /\ user_data = None
    /\ using_sample_data = FALSE
    /\ current_view \in {"day", "week"}
    /\ selected_start_hour = 8
    /\ selected_end_hour = 10
    /\ candle_interval_seconds = 60
    /\ simulation_active = TRUE
    /\ simulation_day_index = 0
    /\ start_hour_var = Format02d(8)
    /\ end_hour_var = Format02d(10)
    /\ interval_var = "1 minute"
    /\ event = [handler |-> "toggle_simulation", dialogs |-> <<>>]
    /\ window_data = None
    /\ interval_seconds = 60
    /\ candle_data = <<>>
    /\ analysis = None
    /\ pc = "idle"
    /\ thread = [pc |-> "start", days |-> <<>>, start_day |-> 0]
    /\ after = 0

NextSimulation ==
    \/ RunSimulationStart
    \/ RunSimulationAdvance
    \/ RunSimulationCheck
    \/ RunAfter

SpecSimulation ==
    /\ InitSimulation
    /\ [][NextSimulation]_vars
    /\ WF_vars(RunSimulationStart)
    /\ WF_vars(RunSimulationAdvance)
    /\ WF_vars(RunSimulationCheck)
    /\ WF_vars(RunAfter)

(***************************************************************************)
(* SpecSeries: the window selection and the interval candles on their own. *)
(* A series of at most MaxSeriesRows rows, in any row order, is loaded;    *)
(* get_high_resolution_data is applied to a window of it and               *)
(* get_candle_data to the window's rows, with the application's widths and *)
(* with widths of the caller's own.                                        *)
(***************************************************************************)
\* samples of one Monday: two in the minute 08:07, two more at the very
\* same second as one of them, one in the minute after, one an hour later
SeriesRows ==
    { RawRow(Cell(SampleStartDate, 8, 7, 5), 10),
      RawRow(Cell(SampleStartDate, 8, 7, 31), 20),
      RawRow(Cell(SampleStartDate, 8, 7, 31), 30),
      RawRow(Cell(SampleStartDate, 8, 8, 10), 10),
      RawRow(Cell(SampleStartDate, 9, 0, 0), 20) }

SeriesFiles == {File(rows) : rows \in SeqsUpTo(SeriesRows, MaxSeriesRows)}

SeriesWindows == {<<8, 9>>, <<8, 10>>, <<7, 9>>}

SeriesWidths == IntervalSeconds \cup {45, 7200}

InitSeries ==
    /\ \E file \in SeriesFiles :
          /\ data = load_data(file).data
          /\ days = load_data(file).days
          /\ current_day_index = load_data(file).current_day_index
          /\ has_second_resolution = load_data(file).has_second_resolution
          /\ user_data = load_data(file).data
    /\ current_day = 0
    /\ using_sample_data = FALSE
    /\ current_view = "day"
    /\ selected_start_hour = 8
    /\ selected_end_hour = 10
    /\ candle_interval_seconds = 60
    /\ simulation_active = FALSE
    /\ simulation_day_index = 0
    /\ start_hour_var = Format02d(8)
    /\ end_hour_var = Format02d(10)
    /\ interval_var = "1 minute"
    /\ event = [handler |-> "load_data", dialogs |-> <<InfoBox("Data Loaded")>>]
    /\ InitCore

appVars == <<modelVars, current_day, user_data, using_sample_data, current_view,
             candle_interval_seconds, simulation_active, simulation_day_index,
             start_hour_var, end_hour_var, interval_var, event, threadVars>>

\* get_high_resolution_data(start_hour, end_hour) on the loaded series
GetHighResolutionData(start_hour, end_hour) ==
    /\ window_data' = get_high_resolution_data(data, days, current_day_index,
                                               start_hour, end_hour)
    /\ selected_start_hour' = start_hour
    /\ selected_end_hour' = end_hour
    /\ candle_data' = <<>>
    /\ pc' = "get_high_resolution_data"
    /\ UNCHANGED <<appVars, interval_seconds, analysis>>

\* get_candle_data(window_data, width) on the frame the window selection
\* returned: the frame keeps the epoch and interval columns
GetCandleData(width) ==
    /\ pc \in {"get_high_resolution_data", "get_candle_data"}
    /\ candle_data' = IF get_candle_data_raises(window_data, width) THEN <<>>
                       ELSE get_candle_data(window_data, width)
    /\ window_data' = with_interval(window_data, width)
    /\ interval_seconds' = width
    /\ pc' = after_call("get_candle_data", get_candle_data_raises(window_data, width))
    /\ UNCHANGED <<appVars, selected_start_hour, selected_end_hour, analysis>>

NextSeries ==
    \/ \E w \in SeriesWindows : GetHighResolutionData(w[1], w[2])
    \/ \E width \in SeriesWidths : GetCandleData(width)

SpecSeries == InitSeries /\ [][NextSeries]_vars

(***************************************************************************)
(* SpecWeek: the weekly analysis on its own.  A series of at most          *)
(* MaxSeriesRows rows over several weekdays is loaded, or none is, and     *)
(* one of analyze_week_patterns, find_day_index_by_name, get_weekly_data   *)
(* and the week view's plot_week_view is applied.                          *)
(***************************************************************************)
\* samples of two Mondays a week apart, a Wednesday, a Saturday and a Sunday
WeekRows ==
    { RawRow(Cell(SampleStartDate, 8, 0, 0), 10),
      RawRow(Cell(SampleStartDate + 7, 8, 0, 0), 40),
      RawRow(Cell(SampleStartDate + 2, 8, 0, 0), 20),
      RawRow(Cell(SampleStartDate + 5, 8, 0, 0), 40),
      RawRow(Cell(SampleStartDate + 6, 8, 0, 0), 20) }

\* one sample on each day of the week of 2023-05-01: Monday 20, Tuesday 22,
\* Wednesday 19, Thursday 21, Friday 20, Saturday 40, Sunday 42
FullWeekFile ==
    File(<<RawRow(Cell(SampleStartDate, 8, 0, 0), 20),
           RawRow(Cell(SampleStartDate + 1, 8, 0, 0), 22),
           RawRow(Cell(SampleStartDate + 2, 8, 0, 0), 19),
           RawRow(Cell(SampleStartDate + 3, 8, 0, 0), 21),
           RawRow(Cell(SampleStartDate + 4, 8, 0, 0), 20),
           RawRow(Cell(SampleStartDate + 5, 8, 0, 0), 40),
           RawRow(Cell(SampleStartDate + 6, 8, 0, 0), 42)>>)

WeekFiles ==
    {File(rows) : rows \in SeqsUpTo(WeekRows, MaxSeriesRows)} \cup {FullWeekFile}

InitWeek ==
    /\ \/ /\ data = None
          /\ days = <<>>
          /\ current_day_index = 0
          /\ has_second_resolution = FALSE
          /\ event = [handler |-> "__init__", dialogs |-> <<>>]
       \/ \E file \in WeekFiles :
             /\ data = load_data(file).data
             /\ days = load_data(file).days
             /\ current_day_index = load_data(file).current_day_index
             /\ has_second_resolution = load_data(file).has_second_resolution
             /\ event = [handler |-> "load_data", dialogs |-> <<>>]
    /\ user_data = data
    /\ current_day = 0
    /\ using_sample_data = FALSE
    /\ current_view = "day"
    /\ selected_start_hour = 8
    /\ selected_end_hour = 10
    /\ candle_interval_seconds = 60
    /\ simulation_active = FALSE
    /\ simulation_day_index = 0
    /\ start_hour_var = Format02d(8)
    /\ end_hour_var = Format02d(10)
    /\ interval_var = "1 minute"
    /\ InitCore

AnalyzeWeekPatterns ==
    /\ pc = "idle"
    /\ analysis' = IF analyze_week_patterns_raises(data) THEN analysis
                    ELSE analyze_week_patterns(data)
    /\ pc' = after_call("analyze_week_patterns", analyze_week_patterns_raises(data))
    /\ UNCHANGED <<appVars, selected_start_hour, selected_end_hour, window_data,
                   interval_seconds, candle_data>>

\* labels asked for: the seven names, one in lower case, and the empty text
WeekLabels == Range(DAYS_OF_WEEK) \cup {"monday", ""}

\* find_day_index_by_name(day_name) on the loaded series; analysis holds the
\* label asked for and the value returned
FindDayIndexByName(day_name) ==
    /\ pc = "idle"
    /\ analysis' = [day_name |-> day_name,
                    result |-> find_day_index_by_name(data, days, day_name)]
    /\ pc' = "find_day_index_by_name"
    /\ UNCHANGED <<appVars, selected_start_hour, selected_end_hour, window_data,
                   interval_seconds, candle_data>>

\* get_weekly_data() on the loaded series; candle_data holds the rows
GetWeeklyData ==
    /\ pc = "idle"
    /\ candle_data' = get_weekly_data(data)
    /\ pc' = "get_weekly_data"
    /\ UNCHANGED <<appVars, selected_start_hour, selected_end_hour, window_data,
                   interval_seconds, analysis>>

\* update_week_view's plot_week_view(get_weekly_data()); candle_data holds
\* the candles drawn
PlotWeekView ==
    /\ pc = "idle"
    /\ candle_data' = plot_week_view(get_weekly_data(data))
    /\ pc' = "plot_week_view"
    /\ UNCHANGED <<appVars, selected_start_hour, selected_end_hour, window_data,
                   interval_seconds, analysis>>

NextWeek ==
    \/ AnalyzeWeekPatterns
    \/ \E day_name \in WeekLabels : FindDayIndexByName(day_name)
    \/ GetWeeklyData
    \/ PlotWeekView

SpecWeek == InitWeek /\ [][NextWeek]_vars

(***************************************************************************)
(* SpecCandleWeek: the week view of candle.py on its own.  A series of at  *)
(* most MaxSeriesRows rows over several weekdays is loaded and the week    *)
(* view is plotted.                                                        *)
(***************************************************************************)
InitCandleWeek ==
    /\ \E file \in WeekFiles : data = candle_frame(file)
    /\ days = <<>>
    /\ current_day_index = 0
    /\ has_second_resolution = FALSE
    /\ current_day = 0
    /\ user_data = None
    /\ using_sample_data = FALSE
    /\ current_view = "week"
    /\ selected_start_hour = 8
    /\ selected_end_hour = 10
    /\ candle_interval_seconds = 60
    /\ simulation_active = FALSE
    /\ simulation_day_index = 0
    /\ start_hour_var = Format02d(8)
    /\ end_hour_var = Format02d(10)
    /\ interval_var = "1 minute"
    /\ event = [handler |-> "switch_view", dialogs |-> <<>>]
    /\ InitCore

\* plot_kcandles in the week view; candle_data holds the candles drawn
CandlePlotWeekView ==
    /\ pc = "idle"
    /\ current_view = "week"
    /\ candle_data' = candle_plot_week_view(data)
    /\ pc' = "plot_week_view"
    /\ UNCHANGED <<appVars, selected_start_hour, selected_end_hour, window_data,
                   interval_seconds, analysis>>

NextCandleWeek == CandlePlotWeekView

SpecCandleWeek == InitCandleWeek /\ [][NextCandleWeek]_vars


(***************************************************************************)
(* SpecDay: the hourly aggregation and the daily analysis on their own.    *)
(* A series of at most MaxSeriesRows rows, in any row order, is loaded;    *)
(* the cursor is moved, and get_daily_data_grouped_by_hour,                *)
(* analyze_day_patterns and get_high_resolution_data are applied to the    *)
(* selected day.                                                           *)
(***************************************************************************)
\* samples of one Monday in the morning (two in the hour 8), at midday, in
\* the evening (two hours) and at night, and one of the Tuesday after it
DayRows ==
    { RawRow(Cell(SampleStartDate, 8, 0, 0), 50),
      RawRow(Cell(SampleStartDate, 8, 30, 0), 30),
      RawRow(Cell(SampleStartDate, 13, 0, 0), 30),
      RawRow(Cell(SampleStartDate, 19, 0, 0), 50),
      RawRow(Cell(SampleStartDate, 20, 0, 0), 52),
      RawRow(Cell(SampleStartDate, 3, 0, 0), 30),
      RawRow(Cell(SampleStartDate + 1, 8, 0, 0), 30) }

DayFiles == {File(rows) : rows \in SeqsUpTo(DayRows, MaxSeriesRows)}

InitDay ==
    /\ \E file \in DayFiles :
          /\ data = load_data(file).data
          /\ days = load_data(file).days
          /\ current_day_index = load_data(file).current_day_index
          /\ has_second_resolution = load_data(file).has_second_resolution
          /\ user_data = load_data(file).data
    /\ current_day = 0
    /\ using_sample_data = FALSE
    /\ current_view = "day"
    /\ selected_start_hour = 8
    /\ selected_end_hour = 10
    /\ candle_interval_seconds = 60
    /\ simulation_active = FALSE
    /\ simulation_day_index = 0
    /\ start_hour_var = Format02d(8)
    /\ end_hour_var = Format02d(10)
    /\ interval_var = "1 minute"
    /\ event = [handler |-> "load_data", dialogs |-> <<InfoBox("Data Loaded")>>]
    /\ InitCore

dayVars == <<data, days, has_second_resolution, current_day, user_data,
             using_sample_data, current_view, selected_start_hour, selected_end_hour,
             candle_interval_seconds, simulation_active, simulation_day_index,
             start_hour_var, end_hour_var, interval_var, event, interval_seconds,
             threadVars>>

DayWindows == {<<8, 13>>, <<3, 9>>}

\* DataModel.next_day on the loaded series
ModelNextDay ==
    /\ current_day_index' = next_day(days, current_day_index)
    /\ window_data' = None
    /\ analysis' = None
    /\ candle_data' = <<>>
    /\ pc' = "next_day"
    /\ UNCHANGED dayVars

GetDailyDataGroupedByHour ==
    /\ candle_data' = get_daily_data_grouped_by_hour(data, days, current_day_index)
    /\ window_data' = None
    /\ analysis' = None
    /\ pc' = "get_daily_data_grouped_by_hour"
    /\ UNCHANGED <<dayVars, current_day_index>>

AnalyzeDayPatterns ==
    /\ analysis' = IF analyze_day_patterns_raises(data, days, current_day_index)
                    THEN None
                    ELSE analyze_day_patterns(data, days, current_day_index)
    /\ window_data' = None
    /\ candle_data' = <<>>
    /\ pc' = after_call("analyze_day_patterns",
                        analyze_day_patterns_raises(data, days, current_day_index))
    /\ UNCHANGED <<dayVars, current_day_index>>

NextDayAnalysis ==
    \/ ModelNextDay
    \/ GetDailyDataGroupedByHour
    \/ AnalyzeDayPatterns
    \/ \E w \in DayWindows : GetHighResolutionData(w[1], w[2])

SpecDay == InitDay /\ [][NextDayAnalysis]_vars

(***************************************************************************)
(* SpecCandles: the interval candles of series long enough for several     *)
(* candles.  A series of CandleSeriesLen of the rows below, in any row     *)
(* order, is loaded; a day of it is selected, a window of the day, and the *)
(* window is bucketed with the widths of HIGHRES_INTERVALS.                *)
(***************************************************************************)
\* samples of one Monday at both ends of the hour 8 and one right after it,
\* and one of the Tuesday after it
CandleSeriesRows ==
    { RawRow(Cell(SampleStartDate, 8, 0, 0), 10),
      RawRow(Cell(SampleStartDate, 8, 0, 10), 20),
      RawRow(Cell(SampleStartDate, 8, 59, 50), 30),
      RawRow(Cell(SampleStartDate, 8, 59, 55), 10),
      RawRow(Cell(SampleStartDate, 9, 0, 5), 20),
      RawRow(Cell(SampleStartDate + 1, 8, 0, 5), 30) }

CandleSeriesLen == 4

CandleSeriesFiles ==
    {File(rows) : rows \in {s \in [1..CandleSeriesLen -> CandleSeriesRows] :
                               \A i, j \in 1..CandleSeriesLen : i # j => s[i] # s[j]}}

CandleSeriesWindows == {<<8, 9>>, <<8, 10>>, <<7, 9>>, <<9, 10>>}

InitCandles ==
    /\ \E file \in CandleSeriesFiles :
          /\ data = load_data(file).data
          /\ days = load_data(file).days
          /\ current_day_index = load_data(file).current_day_index
          /\ has_second_resolution = load_data(file).has_second_resolution
          /\ user_data = load_data(file).data
    /\ current_day = 0
    /\ using_sample_data = FALSE
    /\ current_view = "day"
    /\ selected_start_hour = 8
    /\ selected_end_hour = 10
    /\ candle_interval_seconds = 60
    /\ simulation_active = FALSE
    /\ simulation_day_index = 0
    /\ start_hour_var = Format02d(8)
    /\ end_hour_var = Format02d(10)
    /\ interval_var = "1 minute"
    /\ event = [handler |-> "load_data", dialogs |-> <<InfoBox("Data Loaded")>>]
    /\ InitCore

NextCandles ==
    \/ ModelNextDay
    \/ \E w \in CandleSeriesWindows : GetHighResolutionData(w[1], w[2])
    \/ \E width \in IntervalSeconds : GetCandleData(width)

SpecCandles == InitCandles /\ [][NextCandles]_vars

(***************************************************************************)
(* SpecTotal: the aggregation and classification functions on series of    *)
(* every shape.  No series is loaded, or one of at most MaxSeriesRows rows *)
(* (none included) over two dates; the day is moved, windows of it are     *)
(* selected and bucketed, and the day and the week are analysed.           *)
(***************************************************************************)
\* two samples in one minute of a Monday morning, one that evening and one
\* on the Tuesday
TotalRows ==
    { RawRow(Cell(SampleStartDate, 8, 0, 0), 50),
      RawRow(Cell(SampleStartDate, 8, 0, 30), 30),
      RawRow(Cell(SampleStartDate, 19, 0, 0), 50),
      RawRow(Cell(SampleStartDate + 1, 8, 0, 0), 30) }

TotalFiles == {File(rows) : rows \in SeqsUpTo(TotalRows, MaxSeriesRows)}

InitTotal ==
    /\ \/ /\ data = None
          /\ days = <<>>
          /\ current_day_index = 0
          /\ has_second_resolution = FALSE
          /\ event = [handler |-> "__init__", dialogs |-> <<>>]
       \/ \E file \in TotalFiles :
             /\ data = load_data(file).data
             /\ days = load_data(file).days
             /\ current_day_index = load_data(file).current_day_index
             /\ has_second_resolution = load_data(file).has_second_resolution
             /\ event = [handler |-> "load_data", dialogs |-> <<>>]
    /\ user_data = data
    /\ current_day = 0
    /\ using_sample_data = FALSE
    /\ current_view = "day"
    /\ selected_start_hour = 8
    /\ selected_end_hour = 10
    /\ candle_interval_seconds = 60
    /\ simulation_active = FALSE
    /\ simulation_day_index = 0
    /\ start_hour_var = Format02d(8)
    /\ end_hour_var = Format02d(10)
    /\ interval_var = "1 minute"
    /\ InitCore

TotalWidths == {60, 3600}

NextTotal ==
    \/ ModelNextDay
    \/ AnalyzeDayPatterns
    \/ AnalyzeWeekPatterns
    \/ \E w \in DayWindows : GetHighResolutionData(w[1], w[2])
    \/ \E width \in TotalWidths : GetCandleData(width)

SpecTotal == InitTotal /\ [][NextTotal]_vars

(***************************************************************************)
(* SpecCandleDay: the day analysis of candle.py on its own.  A series of   *)
(* at most MaxSeriesRows rows over two dates is loaded, the day view is    *)
(* on one of its dates, and analyze_day_patterns is applied.               *)
(***************************************************************************)
InitCandleDay ==
    /\ \E file \in DayFiles :
          /\ data = candle_frame(file)
          /\ current_day \in {0} \cup {k \in 0..1 : k < Len(unique_days(candle_frame(file)))}
    /\ days = <<>>
    /\ current_day_index = 0
    /\ has_second_resolution = FALSE
    /\ user_data = None
    /\ using_sample_data = FALSE
    /\ current_view = "day"
    /\ selected_start_hour = 8
    /\ selected_end_hour = 10
    /\ candle_interval_seconds = 60
    /\ simulation_active = FALSE
    /\ simulation_day_index = 0
    /\ start_hour_var = Format02d(8)
    /\ end_hour_var = Format02d(10)
    /\ interval_var = "1 minute"
    /\ event = [handler |-> "load_data", dialogs |-> <<InfoBox("Data Loaded")>>]
    /\ InitCore

\* analyze_patterns in the day view; analysis holds what
\* analyze_day_patterns computed
CandleAnalyzeDayPatterns ==
    /\ pc = "idle"
    /\ current_view = "day"
    /\ analysis' = candle_analyze_day_patterns(data, current_day)
    /\ pc' = "analyze_day_patterns"
    /\ UNCHANGED <<appVars, selected_start_hour, selected_end_hour, window_data,
                   interval_seconds, candle_data>>

NextCandleDay == CandleAnalyzeDayPatterns

SpecCandleDay == InitCandleDay /\ [][NextCandleDay]_vars

(***************************************************************************)
(* SpecResolution: load_data on its own.  One file is loaded into a new    *)
(* DataModel: a series of at most MaxSeriesRows rows, or a series too long *)
(* to be examined whole.                                                   *)
(***************************************************************************)
\* MaxSampleSize + 1 samples of one day, the first two in the minute 00:00
\* and one in each of the minutes after it
LongFile ==
    File([i \in 1 .. MaxSampleSize + 1 |->
            IF i = 1 THEN RawRow(Cell(SampleStartDate, 0, 0, 0), 10)
            ELSE IF i = 2 THEN RawRow(Cell(SampleStartDate, 0, 0, 30), 10)
            ELSE RawRow(Cell(SampleStartDate, (i - 2) \div 60, (i - 2) % 60, 0), 10)])

ResolutionFiles == SeriesFiles \cup {LongFile}

\* DataModel.load_data(file) on a new DataModel
ModelLoadData(file) ==
    /\ pc = "idle"
    /\ LoadException(file) = ""
    /\ \E m \in load_data_outcomes(file) : SetModel(m)
    /\ pc' = "load_data"
    /\ UNCHANGED <<current_day, user_data, using_sample_data, current_view,
                   selected_start_hour, selected_end_hour, candle_interval_seconds,
                   simulation_active, simulation_day_index, start_hour_var,
                   end_hour_var, interval_var, event, window_data, interval_seconds,
                   candle_data, analysis, threadVars>>

NextResolution == \E file \in ResolutionFiles : ModelLoadData(file)

SpecResolution == Init /\ [][NextResolution]_vars

(***************************************************************************)
(* Claims.                                                                 *)
(***************************************************************************)
\* the most recent handler showed an error dialog with this title
ShowedError(title) ==
    \E i \in DOMAIN event.dialogs :
        event.dialogs[i].kind = "error" /\ event.dialogs[i].title = title

\* C1: whenever the list of distinct dates is non-empty, the cursor is an
\* index into it: 0 <= current_day_index < len(days).
C1_CursorInRange ==
    days # <<>> => (0 <= current_day_index /\ current_day_index < Len(days))

\* previous_day has wrapped from the first to the last of three dates
C1_Witness ==
    event.handler = "previous_day" /\ Len(days) = 3 /\ current_day_index = 2

\* C2: with n distinct dates and cursor c, next_day leaves the cursor at
\* (c + 1) mod n and previous_day at (c - 1) mod n; with n = 0 both leave it
\* where it was.
C2_NavigationRotates ==
    [][ /\ event'.handler = "next_day" =>
            current_day_index' = IF Len(days) = 0 THEN current_day_index
                                 ELSE (current_day_index + 1) % Len(days)
        /\ event'.handler = "previous_day" =>
            current_day_index' = IF Len(days) = 0 THEN current_day_index
                                 ELSE (current_day_index + Len(days) - 1) % Len(days)
      ]_vars

\* next_day has wrapped from the last to the first of three dates
C2_Witness ==
    event.handler = "next_day" /\ Len(days) = 3 /\ current_day_index = 0

\* the most recent request for the high-resolution view was refused because
\* of the window (out of range, inverted, or longer than 4 hours)
WindowRejected ==
    /\ event.handler \in {"update_high_res_view", "switch_view"}
    /\ \E i \in DOMAIN event.dialogs :
          /\ event.dialogs[i].title = "Invalid Time Window"
          /\ event.dialogs[i].text # IntErrorText

\* C3: a refused window request leaves current_view, selected_start_hour,
\* selected_end_hour and the candle interval as they were.
C3_RejectedWindowKeepsView ==
    [][ WindowRejected' =>
            UNCHANGED <<current_view, selected_start_hour, selected_end_hour,
                        candle_interval_seconds>> ]_vars

\* the constraints of the window selector
ValidWindow(start, end) ==
    /\ 0 <= start /\ start <= 23
    /\ 0 <= end /\ end <= 24
    /\ end > start
    /\ end - start <= 4

\* C4: a pair of integers (start_hour, end_hour) asked for is accepted if and
\* only if 0 <= start_hour <= 23, 0 <= end_hour <= 24, end_hour > start_hour
\* and end_hour - start_hour <= 4; an accepted pair is used as given, and
\* every other pair is answered by an error dialog that states a reason.
C4_WindowAcceptedIffValid ==
    (/\ event.handler \in {"update_high_res_view", "switch_view"}
     /\ int_ok(start_hour_var) /\ int_ok(end_hour_var)) =>
        IF ValidWindow(int(start_hour_var), int(end_hour_var))
        THEN /\ ~ShowedError("Invalid Time Window")
             /\ current_view = "high_res"
             /\ selected_start_hour = int(start_hour_var)
             /\ selected_end_hour = int(end_hour_var)
        ELSE /\ event.dialogs # <<>>
             /\ \A i \in DOMAIN event.dialogs :
                   /\ event.dialogs[i].kind = "error"
                   /\ event.dialogs[i].title = "Invalid Time Window"
                   /\ event.dialogs[i].text \notin {"", IntErrorText}
             /\ ~ValidWindow(selected_start_hour, selected_end_hour)

\* the five-hour window (5, 10) has been refused
C4_Witness ==
    /\ event.handler = "update_high_res_view"
    /\ start_hour_var = Format02d(5) /\ end_hour_var = Format02d(10)
    /\ ShowedError("Invalid Time Window")

\* the most recent handler was a load that failed for a missing required
\* column or for timestamps that cannot be parsed
LoadFailed ==
    /\ event.handler = "load_data"
    /\ \E i \in DOMAIN event.dialogs :
          /\ event.dialogs[i].kind = "error"
          /\ event.dialogs[i].text \in {MissingColumnsText, UnparseableText}

\* C5: a load that fails (a required column absent, or timestamps that
\* cannot be parsed) is never partially applied: the loaded series, the list
\* of distinct dates, the cursor and the resolution flag are what they were
\* before the load.
C5_FailedLoadNotApplied ==
    [][ LoadFailed' =>
          UNCHANGED <<data, days, current_day_index, has_second_resolution,
                      current_day>> ]_vars

\* the rows get_candle_data was applied to, with their interval column
BucketedRows == IF window_data = None THEN <<>> ELSE window_data.rows

\* C6: interval bucketing puts the sample of epoch second e, for the width
\* w, in the one bucket keyed floor(e / w) * w: the key is a multiple of w
\* in epoch time and key <= e < key + w, whatever window was selected; every
\* candle is keyed by such a bucket start.
C6_BucketKeyIsEpochFloor ==
    pc = "get_candle_data" =>
        /\ \A i \in DOMAIN BucketedRows :
              /\ BucketedRows[i].interval % interval_seconds = 0
              /\ BucketedRows[i].interval <= BucketedRows[i].timestamp
              /\ BucketedRows[i].timestamp < BucketedRows[i].interval + interval_seconds
        /\ \A k \in DOMAIN candle_data :
              \E i \in DOMAIN BucketedRows :
                  candle_data[k].timestamp = BucketedRows[i].interval

\* a sample at 08:07:31, bucketed by the minute in a window starting at 7,
\* is in the bucket starting 08:07:00
C6_Witness ==
    /\ pc = "get_candle_data"
    /\ interval_seconds = 60
    /\ selected_start_hour = 7
    /\ \E i \in DOMAIN BucketedRows :
          /\ dt_hour(BucketedRows[i].timestamp) = 8
          /\ dt_minute(BucketedRows[i].timestamp) = 7
          /\ dt_second(BucketedRows[i].timestamp) = 31
          /\ BucketedRows[i].interval = BucketedRows[i].timestamp - 31

\* the bucket starts holding at least two samples of the window
BucketsOfTwo ==
    LET start(i) == BucketedRows[i].timestamp
                    - (BucketedRows[i].timestamp % interval_seconds)
    IN  { start(i) : i \in { j \in DOMAIN BucketedRows :
                               \E k \in DOMAIN BucketedRows :
                                   k # j /\ start(k) = start(j) } }

\* C7: the candles returned are those of exactly the buckets holding at
\* least 2 samples of the window, one candle each; a bucket with 0 or 1
\* samples gives no candle.
C7_CandleIffTwoSamples ==
    pc = "get_candle_data" =>
        /\ {candle_data[k].timestamp : k \in DOMAIN candle_data} = BucketsOfTwo
        /\ Len(candle_data) = Cardinality(BucketsOfTwo)

\* three samples of the window, two in the minute 08:07 and one alone in
\* 08:08, bucketed by the minute: one candle
C7_Witness ==
    /\ pc = "get_candle_data"
    /\ interval_seconds = 60
    /\ Len(BucketedRows) = 3
    /\ Cardinality({i \in DOMAIN BucketedRows :
                      dt_minute(BucketedRows[i].timestamp) = 7}) = 2
    /\ \E i \in DOMAIN BucketedRows : dt_minute(BucketedRows[i].timestamp) = 8
    /\ Len(candle_data) = 1

\* C8: for every row order of the loaded series, first is the
\* activity_level of the sample with the earliest timestamp of the bucket
\* and last that of the sample with the latest, equal timestamps taken in
\* row order.
C8_FirstLastByTimestamp ==
    pc = "get_candle_data" =>
        \A k \in DOMAIN candle_data :
            LET members == {i \in DOMAIN BucketedRows :
                              BucketedRows[i].interval = candle_data[k].timestamp}
                earliest == CHOOSE i \in members : \A j \in members :
                                \/ BucketedRows[i].timestamp < BucketedRows[j].timestamp
                                \/ /\ BucketedRows[i].timestamp = BucketedRows[j].timestamp
                                   /\ i <= j
                latest == CHOOSE i \in members : \A j \in members :
                                \/ BucketedRows[i].timestamp > BucketedRows[j].timestamp
                                \/ /\ BucketedRows[i].timestamp = BucketedRows[j].timestamp
                                   /\ i >= j
            IN  /\ candle_data[k].first = BucketedRows[earliest].activity_level
                /\ candle_data[k].last = BucketedRows[latest].activity_level

\* C9: every candle has min <= first <= max, min <= last <= max and
\* min <= max.
C9_AggregateBounds ==
    pc = "get_candle_data" =>
        \A k \in DOMAIN candle_data :
            /\ candle_data[k].min <= candle_data[k].first
            /\ candle_data[k].first <= candle_data[k].max
            /\ candle_data[k].min <= candle_data[k].last
            /\ candle_data[k].last <= candle_data[k].max
            /\ candle_data[k].min <= candle_data[k].max

\* a candle whose first, last, max and min are not all the same sample
C9_Witness ==
    /\ pc = "get_candle_data"
    /\ \E k \in DOMAIN candle_data :
          /\ candle_data[k].max > candle_data[k].first
          /\ candle_data[k].first > candle_data[k].last

\* the mean of the per-day means of those of the labels (positions in
\* DAYS_OF_WEEK) that have a sample in frame d, 0 when none has
PresentOnlyMean(d, labels) ==
    LET levels(i) == LET group == SelectSeq(d.rows,
                                     LAMBDA r : r.day_of_week = DAYS_OF_WEEK[i])
                     IN  [k \in DOMAIN group |-> Rat(group[k].activity_level, 1)]
        present == SelectSeq(labels, LAMBDA i : levels(i) # <<>>)
    IN  IF present = <<>> THEN Rat(0, 1)
        ELSE mean([k \in DOMAIN present |-> mean(levels(present[k]))])

\* C10: weekday_avg is the mean of the per-day means of only the
\* Monday-Friday labels that have a sample, weekend_avg likewise for
\* Saturday and Sunday; a label without samples is left out of the mean, not
\* counted as 0, and a side with no label present has mean 0.
C10_MeansOverPresentLabels ==
    (pc = "analyze_week_patterns" /\ analysis # EmptyDict) =>
        /\ analysis.weekday_avg = PresentOnlyMean(data, <<1, 2, 3, 4, 5>>)
        /\ analysis.weekend_avg = PresentOnlyMean(data, <<6, 7>>)

\* the positions in DAYS_OF_WEEK of the labels with a sample in frame d
PresentLabels(d) ==
    {i \in DOMAIN DAYS_OF_WEEK :
        \E k \in DOMAIN d.rows : d.rows[k].day_of_week = DAYS_OF_WEEK[i]}

\* the mean of the samples of frame d pooled for the label at position i
PooledMean(d, i) ==
    LET group == SelectSeq(d.rows, LAMBDA r : r.day_of_week = DAYS_OF_WEEK[i])
    IN  mean([k \in DOMAIN group |-> Rat(group[k].activity_level, 1)])

\* C11: most_active_day and least_active_day are a label of greatest and
\* one of least per-day mean among the labels that have a sample; a label
\* without samples is never returned, and neither is any label when no
\* label has a sample.
C11_ActiveDaysAmongPresentLabels ==
    (pc = "analyze_week_patterns" /\ analysis # EmptyDict) =>
        IF PresentLabels(data) = {}
        THEN /\ analysis.most_active_day \notin Range(DAYS_OF_WEEK)
             /\ analysis.least_active_day \notin Range(DAYS_OF_WEEK)
        ELSE /\ \E i \in PresentLabels(data) :
                   /\ analysis.most_active_day = DAYS_OF_WEEK[i]
                   /\ \A j \in PresentLabels(data) :
                         ~RatLess(PooledMean(data, i), PooledMean(data, j))
             /\ \E i \in PresentLabels(data) :
                   /\ analysis.least_active_day = DAYS_OF_WEEK[i]
                   /\ \A j \in PresentLabels(data) :
                         ~RatLess(PooledMean(data, j), PooledMean(data, i))

\* the decision tree of the daily classification on three segment means
DayTree(morning, midday, evening) ==
    CASE RatLess(midday, morning) /\ RatLess(evening, morning) -> "morning_peak"
      [] OTHER ->
    CASE RatLess(morning, evening) /\ RatLess(midday, evening) -> "evening_peak"
      [] OTHER ->
    CASE RatLess(morning, midday) /\ RatLess(evening, midday) -> "midday_peak"
      [] OTHER ->
    CASE /\ Abs(RatSub(morning, evening).num) < 5 * RatSub(morning, evening).den
         /\ RatLess(midday, morning) -> "bimodal"
      [] OTHER -> "consistent"

\* C12: the pattern type of a day is the first match of: morning greater
\* than both others, morning_peak; evening greater than both, evening_peak;
\* midday greater than both, midday_peak; |morning - evening| < 5 and
\* morning > midday, bimodal; else consistent.  Morning 50, midday 30,
\* evening 50 is bimodal.
C12_DayDecisionTree ==
    /\ (pc = "analyze_day_patterns" /\ analysis # EmptyDict) =>
          analysis.pattern_type = DayTree(analysis.morning_activity,
                                          analysis.midday_activity,
                                          analysis.evening_activity)
    /\ (/\ pc = "analyze_day_patterns"
        /\ analysis # EmptyDict
        /\ analysis.morning_activity = Rat(50, 1)
        /\ analysis.midday_activity = Rat(30, 1)
        /\ analysis.evening_activity = Rat(50, 1)) =>
          analysis.pattern_type = "bimodal"

\* the day with morning 50, midday 30 and evening 50 has been analysed
C12_Witness ==
    /\ pc = "analyze_day_patterns"
    /\ analysis # EmptyDict
    /\ analysis.morning_activity = Rat(50, 1)
    /\ analysis.midday_activity = Rat(30, 1)
    /\ analysis.evening_activity = Rat(50, 1)
    /\ analysis.pattern_type = "bimodal"

\* the sum of the squares of a sequence of floats
SumOfSquares(s) == RatSum([i \in DOMAIN s |-> RatMul(s[i], s[i])])

\* the standard deviation (ddof = 1) of the seven values is below 10:
\* 7 * sum(x^2) - sum(x)^2 < 7 * 6 * 100
StdBelowTen(s) ==
    RatLess(RatSub(RatMul(Rat(7, 1), SumOfSquares(s)), RatMul(RatSum(s), RatSum(s))),
            Rat(4200, 1))

\* the decision tree of the weekly classification
WeekTree(weekday_mean, weekend_mean, per_day_means) ==
    CASE 10 * weekend_mean.num * weekday_mean.den
            > 13 * weekday_mean.num * weekend_mean.den -> "weekend_warrior"
      [] OTHER ->
    CASE 10 * weekday_mean.num * weekend_mean.den
            > 13 * weekend_mean.num * weekday_mean.den -> "workweek_active"
      [] OTHER ->
    CASE StdBelowTen(per_day_means) -> "consistent_weekly"
      [] OTHER -> "variable_weekly"

\* C13: the weekly pattern type is the first match of: weekend mean greater
\* than 1.3 times the weekday mean, weekend_warrior; weekday mean greater
\* than 1.3 times the weekend mean, workweek_active; standard deviation of
\* the 7 per-day means below 10, consistent_weekly; else variable_weekly.
\* Per-day means 20, 22, 19, 21, 20, 40, 42 are weekend_warrior.
C13_WeekDecisionTree ==
    (pc = "analyze_week_patterns" /\ analysis # EmptyDict) =>
        /\ Len(analysis.daily_averages) = 7
        /\ analysis.pattern_type = WeekTree(analysis.weekday_avg, analysis.weekend_avg,
                                            analysis.daily_averages)
        /\ analysis.daily_averages
              = <<Rat(20, 1), Rat(22, 1), Rat(19, 1), Rat(21, 1), Rat(20, 1),
                  Rat(40, 1), Rat(42, 1)>>
           => analysis.pattern_type = "weekend_warrior"

\* the week with per-day means 20, 22, 19, 21, 20, 40, 42 has been analysed
C13_Witness ==
    /\ pc = "analyze_week_patterns"
    /\ analysis # EmptyDict
    /\ analysis.daily_averages
          = <<Rat(20, 1), Rat(22, 1), Rat(19, 1), Rat(21, 1), Rat(20, 1),
              Rat(40, 1), Rat(42, 1)>>
    /\ analysis.pattern_type = "weekend_warrior"

\* the positions in days of the dates whose weekday is label
DatesOfLabel(label) ==
    {j \in DOMAIN days : dt_day_name(days[j] * (24 * 3600)) = label}

\* C14: for every row order of the loaded series and every label,
\* find_day_index_by_name returns the index, in the ascending list of
\* distinct dates, of the earliest date whose weekday is the label, and None
\* when no date has that weekday or the label is not one of the seven names.
C14_FindsEarliestDateOfLabel ==
    pc = "find_day_index_by_name" =>
        IF analysis.day_name \notin Range(DAYS_OF_WEEK)
           \/ DatesOfLabel(analysis.day_name) = {}
        THEN analysis.result = None
        ELSE analysis.result = [index |-> Min(DatesOfLabel(analysis.day_name)) - 1]

\* C15: a loaded series of any length is classified second-level if and
\* only if some calendar minute holds 2 or more of its samples; the empty
\* series is minute-level.
C15_SecondLevelIffRepeatedMinute ==
    pc = "load_data" =>
        (has_second_resolution
            <=> Cardinality({data.rows[i].timestamp \div 60 : i \in DOMAIN data.rows})
                    < Len(data.rows))

\* the samples of the loaded series on the selected date, the second of the
\* day of each between start_hour:00:00 and end_hour:00:00 (exclusive)
SamplesOfWindow ==
    IF days = <<>> THEN <<>>
    ELSE SelectSeq(data.rows,
            LAMBDA r : /\ r.timestamp \div (24 * 3600) = days[current_day_index + 1]
                       /\ r.timestamp % (24 * 3600) >= selected_start_hour * 3600
                       /\ r.timestamp % (24 * 3600) < selected_end_hour * 3600)

\* C16: get_high_resolution_data(start_hour, end_hour) returns exactly the
\* samples of the selected date with start_hour <= hour < end_hour, in
\* their order: none of another date, none of the hour end_hour, every one
\* of the hour start_hour (None when there is none).
C16_WindowIsHalfOpenOnSelectedDate ==
    pc = "get_high_resolution_data" =>
        IF SamplesOfWindow = <<>> THEN window_data = None
        ELSE /\ window_data # None
             /\ Len(window_data.rows) = Len(SamplesOfWindow)
             /\ \A i \in DOMAIN SamplesOfWindow :
                   /\ window_data.rows[i].timestamp = SamplesOfWindow[i].timestamp
                   /\ window_data.rows[i].activity_level = SamplesOfWindow[i].activity_level

\* the window 8-13 of a Monday with a sample at 08:00, one at 13:00 and one
\* at 08:00 of the Tuesday: only the first is returned
C16_Witness ==
    /\ pc = "get_high_resolution_data"
    /\ selected_start_hour = 8
    /\ selected_end_hour = 13
    /\ current_day_index = 0
    /\ Len(days) = 2
    /\ Len(data.rows) = 3
    /\ \E i \in DOMAIN data.rows :
          dt_date(data.rows[i].timestamp) = days[1] /\ dt_hour(data.rows[i].timestamp) = 13
    /\ window_data # None
    /\ Len(window_data.rows) = 1
    /\ dt_hour(window_data.rows[1].timestamp) = 8

\* the activity levels of the samples of frame d pooled for the label at
\* position i
PooledLevels(d, i) ==
    {d.rows[k].activity_level :
        k \in {j \in DOMAIN d.rows : d.rows[j].day_of_week = DAYS_OF_WEEK[i]}}

\* C17: for every loaded series the weekly aggregate has exactly 7 rows,
\* keyed Monday to Sunday in that order whatever the order of the dates in
\* the data; a label without samples has a row of NaN aggregates, and the
\* row of a label pools all its samples, of every date.
C17_SevenRowsMondayToSunday ==
    (pc = "get_weekly_data" /\ data # None) =>
        /\ Len(candle_data) = 7
        /\ \A i \in DOMAIN candle_data :
              /\ candle_data[i].day_of_week = DAYS_OF_WEEK[i]
              /\ IF i \in PresentLabels(data)
                 THEN /\ candle_data[i].count
                            = Rat(Cardinality({k \in DOMAIN data.rows :
                                     data.rows[k].day_of_week = DAYS_OF_WEEK[i]}), 1)
                      /\ candle_data[i].mean = PooledMean(data, i)
                      /\ candle_data[i].max = Rat(Max(PooledLevels(data, i)), 1)
                      /\ candle_data[i].min = Rat(Min(PooledLevels(data, i)), 1)
                 ELSE /\ candle_data[i].count = NaN
                      /\ candle_data[i].mean = NaN
                      /\ candle_data[i].max = NaN
                      /\ candle_data[i].min = NaN

\* the Monday of the week after comes first in the data, the first Monday
\* after it: both are pooled in the row of Monday, and Tuesday has none
C17_Witness ==
    /\ pc = "get_weekly_data"
    /\ data # None
    /\ Len(data.rows) >= 2
    /\ data.rows[1].day_of_week = "Monday"
    /\ data.rows[2].day_of_week = "Monday"
    /\ data.rows[1].timestamp > data.rows[2].timestamp
    /\ candle_data[1].count = Rat(2, 1)
    /\ candle_data[2].mean = NaN

\* C18: every weekday candle of the week view has open and close both the
\* mean of all samples pooled for its label, so open = close, and high and
\* low their greatest and least.
C18_WeekCandleOpensAndClosesAtMean ==
    (pc = "plot_week_view" /\ data # None) =>
        \A k \in DOMAIN candle_data :
            \A i \in PresentLabels(data) :
                candle_data[k].day = DAYS_OF_WEEK[i] =>
                    /\ candle_data[k].open_val = PooledMean(data, i)
                    /\ candle_data[k].close_val = PooledMean(data, i)
                    /\ candle_data[k].high_val = Rat(Max(PooledLevels(data, i)), 1)
                    /\ candle_data[k].low_val = Rat(Min(PooledLevels(data, i)), 1)

\* the samples of the date the day analysis is about
SelectedDaySamples ==
    LET date == IF days # <<>> THEN days[current_day_index + 1]
                ELSE unique_days(data)[current_day + 1]
    IN  SelectSeq(data.rows, LAMBDA r : dt_date(r.timestamp) = date)

\* no sample of the selected date lies in the hours first_hour..last_hour
SegmentMissing(first_hour, last_hour) ==
    \A k \in DOMAIN SelectedDaySamples :
        \/ dt_hour(SelectedDaySamples[k].timestamp) < first_hour
        \/ dt_hour(SelectedDaySamples[k].timestamp) > last_hour

\* C19: in the daily classification no segment activity is NaN, and a
\* segment (morning 6..11, midday 12..17, evening 18..23) without an hourly
\* candle on the selected day has the activity 0.
C19_MissingSegmentContributesZero ==
    (pc = "analyze_day_patterns" /\ analysis # None /\ analysis # EmptyDict) =>
        /\ analysis.morning_activity # NaN
        /\ analysis.midday_activity # NaN
        /\ analysis.evening_activity # NaN
        /\ SegmentMissing(6, 11) => analysis.morning_activity = Rat(0, 1)
        /\ SegmentMissing(12, 17) => analysis.midday_activity = Rat(0, 1)
        /\ SegmentMissing(18, 23) => analysis.evening_activity = Rat(0, 1)

\* the hours of the selected date of SpecDay that hold a sample
HoursWithSamples ==
    {dt_hour(SelectedDaySamples[k].timestamp) : k \in DOMAIN SelectedDaySamples}

\* C20: the day view has an hourly candle for exactly the hours 0..23 of
\* the selected date that hold at least one sample, in ascending hour
\* order; the candle of an hour with a single sample has open = close =
\* high = low, the level of that sample.
C20_HourlyCandlesForHoursWithSamples ==
    (pc = "get_daily_data_grouped_by_hour" /\ candle_data # None) =>
        LET hourly == candle_data.rows
        IN  /\ {hourly[k].timestamp : k \in DOMAIN hourly} = HoursWithSamples
            /\ HoursWithSamples \subseteq 0..23
            /\ \A j, k \in DOMAIN hourly :
                  j < k => hourly[j].timestamp < hourly[k].timestamp
            /\ \A k \in DOMAIN hourly :
                  LET samples == SelectSeq(SelectedDaySamples,
                                     LAMBDA r : dt_hour(r.timestamp) = hourly[k].timestamp)
                  IN  Len(samples) = 1 =>
                         /\ hourly[k].first = samples[1].activity_level
                         /\ hourly[k].last = samples[1].activity_level
                         /\ hourly[k].max = samples[1].activity_level
                         /\ hourly[k].min = samples[1].activity_level

\* the day view of a date with two samples in one hour and a single sample
\* in a later hour, the later hour first in the data
C20_Witness ==
    /\ pc = "get_daily_data_grouped_by_hour"
    /\ candle_data # None
    /\ Len(candle_data.rows) = 2
    /\ Len(SelectedDaySamples) = 3
    /\ dt_hour(SelectedDaySamples[1].timestamp) = candle_data.rows[2].timestamp
    /\ candle_data.rows[2].first = candle_data.rows[2].max
    /\ candle_data.rows[2].last = candle_data.rows[2].min
    /\ candle_data.rows[1].max > candle_data.rows[1].min

C22_AggregationAndClassificationTotal ==
    /\ pc # "raised"
    /\ pc = "get_candle_data" =>
          /\ window_data = None => candle_data = <<>>
          /\ \A k \in DOMAIN candle_data : candle_data[k].min <= candle_data[k].max
    /\ pc = "analyze_day_patterns" =>
          \/ analysis = EmptyDict
          \/ analysis.pattern_type \in {"morning_peak", "evening_peak", "midday_peak",
                                        "bimodal", "consistent"}
    /\ pc = "analyze_week_patterns" =>
          \/ analysis = EmptyDict
          \/ analysis.pattern_type \in {"weekend_warrior", "workweek_active",
                                        "consistent_weekly", "variable_weekly"}

\* the empty series was loaded, a window of it selected and bucketed
C22_Witness ==
    /\ pc = "get_candle_data"
    /\ data # None
    /\ Len(data.rows) = 0
    /\ window_data = None
    /\ candle_data = <<>>

\* the day analysis of the empty series returned the empty dict
C22_EmptySeriesDay ==
    pc = "analyze_day_patterns" /\ data # None /\ Len(data.rows) = 0 /\ analysis = EmptyDict

\* the week analysis of a series with one sample returned a dict
C22_OneSampleWeek ==
    /\ pc = "analyze_week_patterns"
    /\ data # None
    /\ Len(data.rows) = 1
    /\ analysis # EmptyDict

\* a window of one-sample buckets was bucketed into no candle
C22_OneSampleBuckets ==
    /\ pc = "get_candle_data"
    /\ window_data # None
    /\ Len(window_data.rows) = 2
    /\ candle_data = <<>>

\* the latest event replaced the series: a load that did not end in the
\* dialog of a missing column or of unparseable timestamps, or a toggle to
\* the sample data or back to the user's
SeriesReplaced ==
    /\ event.dialogs # <<>>
    /\ \/ /\ event.handler = "load_data"
          /\ event.dialogs[Len(event.dialogs)] \notin
                {ErrorBox("Error Loading Data", MissingColumnsText),
                 ErrorBox("Error Loading Data", UnparseableText)}
       \/ /\ event.handler = "toggle_simulation"
          /\ event.dialogs[Len(event.dialogs)] \in {InfoBox("User Data Restored"),
                                                    InfoBox("Sample Data Loaded")}

\* C23: after any sequence of loads, toggles between sample and user data
\* and navigation, the day index is the strictly ascending list of the
\* distinct dates of the series held now, and right after a load or toggle
\* that replaced the series the cursor is 0.
C23_DayIndexOfHeldSeries ==
    /\ data = None => days = <<>>
    /\ data # None =>
          /\ Range(days) = {dt_date(data.rows[i].timestamp) : i \in DOMAIN data.rows}
          /\ \A i, j \in DOMAIN days : i < j => days[i] < days[j]
    /\ SeriesReplaced => current_day_index = 0

\* the user's series of three dates, out of order in the file, is back
\* after the seven dates of the sample data
C23_Witness ==
    /\ event.handler = "toggle_simulation"
    /\ event.dialogs # <<>>
    /\ event.dialogs[Len(event.dialogs)] = InfoBox("User Data Restored")
    /\ Len(days) = 3
    /\ data.rows[1].timestamp > data.rows[2].timestamp
    /\ current_day_index = 0

\* the seconds since midnight of the instant ts
SecondsSinceMidnight(ts) == ts % (24 * 3600)

\* C24: the candles returned for a window are in strictly ascending order
\* of bucket start, each bucket start a multiple of the width, and the
\* time_index of each is the minutes since midnight of its bucket start
\* (seconds / 60, fractional below a minute), so no two candles of one
\* result have the same key.
C24_CandlesAscendingWithDistinctKeys ==
    pc = "get_candle_data" =>
        /\ \A j, k \in DOMAIN candle_data :
              j < k => /\ candle_data[j].timestamp < candle_data[k].timestamp
                       /\ RatLess(candle_data[j].time_index, candle_data[k].time_index)
        /\ \A k \in DOMAIN candle_data :
              /\ candle_data[k].timestamp % interval_seconds = 0
              /\ candle_data[k].time_index.num
                    = SecondsSinceMidnight(candle_data[k].timestamp)
              /\ candle_data[k].time_index.den = 60

\* two candles of 15 seconds, the later bucket first in the file and the
\* second key not a whole minute
C24_Witness ==
    /\ pc = "get_candle_data"
    /\ interval_seconds = 15
    /\ Len(candle_data) = 2
    /\ dt_hour(data.rows[1].timestamp) = 8
    /\ dt_minute(data.rows[1].timestamp) = 59
    /\ candle_data[2].time_index.num % 60 # 0

\* C30: for every window [start_hour, end_hour) of the selected date and
\* every width of HIGHRES_INTERVALS (15, 30, 60, 300 seconds), the bucket
\* start of each candle lies on the selected date, its time_index lies in
\* start_hour * 60 <= time_index < end_hour * 60, and there are at most
\* (end_hour - start_hour) * 3600 / width candles.
C30_CandlesWithinWindow ==
    (pc = "get_candle_data" /\ interval_seconds \in {15, 30, 60, 300}) =>
        /\ \A k \in DOMAIN candle_data :
              /\ dt_date(candle_data[k].timestamp) = days[current_day_index + 1]
              /\ selected_start_hour * 60 * candle_data[k].time_index.den
                    <= candle_data[k].time_index.num
              /\ candle_data[k].time_index.num
                    < selected_end_hour * 60 * candle_data[k].time_index.den
        /\ Len(candle_data) * interval_seconds
              <= (selected_end_hour - selected_start_hour) * 3600

\* the window 8..9 bucketed by five minutes: the candle of its last samples
\* starts at 08:55
C30_Witness ==
    /\ pc = "get_candle_data"
    /\ interval_seconds = 300
    /\ selected_start_hour = 8
    /\ selected_end_hour = 9
    /\ Len(candle_data) = 2
    /\ candle_data[2].time_index = [num |-> 8 * 3600 + 55 * 60, den |-> 60]

\* C25: in candle.py, while run_simulation runs beside the UI thread's
\* load_data, next_day, previous_day and on_day_selected, the cursor is
\* always an index into the distinct dates of the loaded data:
\* 0 <= current_day < number of distinct dates.
C25_CursorInRangeBesideSimulation ==
    (data # None /\ timestamp_error(data) = "" /\ unique_days(data) # <<>>) =>
        (0 <= current_day /\ current_day < Len(unique_days(data)))

\* C26: a started simulation, with no other operation after the start,
\* eventually stops by itself: simulation_active becomes false again, when
\* the cursor is back on the day the simulation started on.
SimulationLeftAlone == simulation_active /\ event.handler = "toggle_simulation"

C26_StartedSimulationStopsByItself ==
    SimulationLeftAlone ~> (~simulation_active \/ event.handler # "toggle_simulation")

\* the same of candle.py's thread, which reports no event of its own
C26_ThreadStopsByItself == simulation_active ~> ~simulation_active

\* C27: in candle.py, whenever plot_high_resolution_view filters the samples
\* of the selected day, after any Apply, view switch and day navigation, the
\* pair (selected_start_hour, selected_end_hour) it filters with is a valid
\* window: 0 <= start <= 23, 0 <= end <= 24, end > start, end - start <= 4.
PlotHighResolutionViewFiltered ==
    /\ event.handler \in {"switch_view", "next_day", "previous_day"}
    /\ current_view = "high_res"
    /\ data # None
    /\ timestamp_error(data) = ""
    /\ unique_days(data) # <<>>

C27_HighResolutionPlotFiltersValidWindow ==
    PlotHighResolutionViewFiltered =>
        /\ 0 <= selected_start_hour /\ selected_start_hour <= 23
        /\ 0 <= selected_end_hour /\ selected_end_hour <= 24
        /\ selected_end_hour > selected_start_hour
        /\ selected_end_hour - selected_start_hour <= 4

\* C28: analyze_day_patterns returns "bimodal" only for a day whose morning
\* and evening means are exactly equal and strictly greater than the midday
\* mean; a day whose morning and evening means differ is never bimodal,
\* however close they are.
C28_BimodalOnlyWhenMorningEqualsEvening ==
    (pc = "analyze_day_patterns" /\ analysis # EmptyDict) =>
        /\ analysis.pattern_type = "bimodal" =>
              /\ analysis.morning_activity = analysis.evening_activity
              /\ RatLess(analysis.midday_activity, analysis.morning_activity)
        /\ analysis.morning_activity # analysis.evening_activity =>
              analysis.pattern_type # "bimodal"

\* a day with equal morning and evening means above its midday mean has
\* been analysed and is bimodal
C28_Witness ==
    /\ pc = "analyze_day_patterns"
    /\ analysis # EmptyDict
    /\ analysis.pattern_type = "bimodal"
    /\ analysis.morning_activity = analysis.evening_activity
    /\ RatLess(analysis.midday_activity, analysis.morning_activity)

\* a day whose morning and evening means differ by less than 5, both above
\* the midday mean, has been analysed
C28_NearlyEqualSegments ==
    /\ pc = "analyze_day_patterns"
    /\ analysis # EmptyDict
    /\ analysis.morning_activity # analysis.evening_activity
    /\ float_abs_diff_less(analysis.morning_activity, analysis.evening_activity, 5)
    /\ RatLess(analysis.midday_activity, analysis.morning_activity)

\* the latest event is a load_data that went through: no error box of
\* DataModel.load_data ends its dialogs
LoadWentThrough(e) ==
    /\ e.handler = "load_data"
    /\ e.dialogs # <<>>
    /\ e.dialogs[Len(e.dialogs)] \notin
          {ErrorBox("Error Loading Data", MissingColumnsText),
           ErrorBox("Error Loading Data", UnparseableText)}

\* C29: in KinetiCandles_v3, from user data loaded and sample data not in
\* use, toggle_simulation twice restores model.data to the user's series
\* with days recomputed from it, cursor 0, view "day", and
\* using_sample_data = simulation_active = false: the first toggle puts the
\* user's series aside, nothing done on the sample data changes it, and the
\* second toggle puts it back.  A load that goes through while sample data
\* is in use leaves both flags false too.
C29_ToggleTwiceRestoresUserData ==
    [][/\ (~using_sample_data /\ user_data # None /\ using_sample_data') =>
             /\ user_data' = data
             /\ simulation_active'
       /\ (using_sample_data /\ using_sample_data') => user_data' = user_data
       /\ (using_sample_data /\ ~using_sample_data'
             /\ event'.handler = "toggle_simulation") =>
             /\ data' = user_data
             /\ days' = unique_days(user_data)
             /\ current_day_index' = 0
             /\ current_view' = "day"
             /\ ~simulation_active'
       /\ (using_sample_data /\ LoadWentThrough(event')) =>
             /\ ~using_sample_data'
             /\ ~simulation_active'
             /\ data' = user_data']_vars

\* the user's series of three dates is back after two toggles
C29_Witness ==
    /\ event.handler = "toggle_simulation"
    /\ event.dialogs # <<>>
    /\ event.dialogs[Len(event.dialogs)] = InfoBox("User Data Restored")
    /\ data = user_data
    /\ days = unique_days(user_data)
    /\ Len(days) >= 2
    /\ current_view = "day"
    /\ ~using_sample_data
    /\ ~simulation_active

\* no load goes through while sample data is in use
C29_NoLoadOverSampleData ==
    [][~(using_sample_data /\ LoadWentThrough(event') /\ ~using_sample_data')]_vars

====
